---- MODULE Spec2Model ----
(***************************************************************************)
(* A model of the interactive session engine of mcp-interactive-terminal:  *)
(* the session manager (src/src/session-manager.ts), the dual-mode         *)
(* terminal (src/src/terminal.ts) and the command-safety pipeline          *)
(* (src/src/tools/send-command.ts, confirm-dangerous-command.ts,           *)
(* src/src/utils/danger-detector.ts).                                      *)
(*                                                                         *)
(* Strings are sequences of one-character strings, so that the regular     *)
(* expressions of the source are matched character by character.           *)
(***************************************************************************)
EXTENDS Integers, Sequences, FiniteSets, TLC

(***************************************************************************)
(* Characters and character classes of JavaScript regular expressions.     *)
(***************************************************************************)
LowerSeq ==
    <<"a","b","c","d","e","f","g","h","i","j","k","l","m",
      "n","o","p","q","r","s","t","u","v","w","x","y","z">>
UpperSeq ==
    <<"A","B","C","D","E","F","G","H","I","J","K","L","M",
      "N","O","P","Q","R","S","T","U","V","W","X","Y","Z">>
Lower == {LowerSeq[i] : i \in 1..26}
Upper == {UpperSeq[i] : i \in 1..26}
Alpha == Lower \cup Upper
Digit == {"0","1","2","3","4","5","6","7","8","9"}
Octal == {"0","1","2","3","4","5","6","7"}
\* \w
WordCh == Alpha \cup Digit \cup {"_"}
\* \s
SpaceCh == {" ", "\t", "\n", "\r"}

(***************************************************************************)
(* Regular expressions as trees, and their matcher.  Ends(r, s, i) is the  *)
(* set of positions at which a match of r that starts at position i of s   *)
(* can end (positions are 1-based; position Len(s)+1 is the end of s).     *)
(* RegExp.prototype.test(s) is true iff some start position has a match.   *)
(***************************************************************************)
RSet(cs) == [t |-> "set", cs |-> cs]
RNot(cs) == [t |-> "nset", cs |-> cs]
\* . matches any character but a line terminator
RAny == RNot({"\n", "\r"})
RCat(rs) == [t |-> "cat", rs |-> rs]
RAlt(rs) == [t |-> "alt", rs |-> rs]
RStar(r) == [t |-> "star", r |-> r]
REps == RCat(<<>>)
RPlus(r) == RCat(<<r, RStar(r)>>)
ROpt(r) == RAlt(<<r, REps>>)
\* \b, ^, $ (no m flag), (?!r)
RWb == [t |-> "wb"]
RBol == [t |-> "bol"]
REol == [t |-> "eol"]
RNla(r) == [t |-> "nla", r |-> r]
\* c{n} and c{n,} for a character class c
RRep(c, n) == [t |-> "rep", c |-> c, n |-> n, more |-> FALSE]
RAtLeast(c, n) == [t |-> "rep", c |-> c, n |-> n, more |-> TRUE]
\* a literal, and a literal under the i flag
RLit(str) == RCat([k \in 1..Len(str) |-> RSet({str[k]})])
BothCases(c) ==
    {c} \cup {UpperSeq[k] : k \in {j \in 1..26 : LowerSeq[j] = c}}
        \cup {LowerSeq[k] : k \in {j \in 1..26 : UpperSeq[j] = c}}
RLitI(str) == RCat([k \in 1..Len(str) |-> RSet(BothCases(str[k]))])
RSp == RSet(SpaceCh)
RNsp == RNot(SpaceCh)

IsWordAt(s, i) == i >= 1 /\ i <= Len(s) /\ s[i] \in WordCh
InClass(c, ch) == IF c.t = "set" THEN ch \in c.cs ELSE ch \notin c.cs

RECURSIVE Ends(_, _, _)
RECURSIVE CatEnds(_, _, _, _)
RECURSIVE StarEnds(_, _, _, _)
Ends(r, s, i) ==
    CASE r.t = "set"  -> IF i <= Len(s) /\ s[i] \in r.cs THEN {i + 1} ELSE {}
      [] r.t = "nset" -> IF i <= Len(s) /\ s[i] \notin r.cs THEN {i + 1} ELSE {}
      [] r.t = "cat"  -> CatEnds(r.rs, 1, s, {i})
      [] r.t = "alt"  -> UNION {Ends(r.rs[k], s, i) : k \in 1..Len(r.rs)}
      [] r.t = "star" -> StarEnds(r.r, s, {i}, {i})
      [] r.t = "rep"  -> {j \in (i + r.n)..(IF r.more THEN Len(s) + 1 ELSE i + r.n) :
                             j <= Len(s) + 1 /\ \A k \in i..(j - 1) : InClass(r.c, s[k])}
      [] r.t = "wb"   -> IF IsWordAt(s, i - 1) # IsWordAt(s, i) THEN {i} ELSE {}
      [] r.t = "bol"  -> IF i = 1 THEN {i} ELSE {}
      [] r.t = "eol"  -> IF i = Len(s) + 1 THEN {i} ELSE {}
      [] r.t = "nla"  -> IF Ends(r.r, s, i) = {} THEN {i} ELSE {}
CatEnds(rs, k, s, from) ==
    IF k > Len(rs) \/ from = {} THEN from
    ELSE CatEnds(rs, k + 1, s, UNION {Ends(rs[k], s, i) : i \in from})
StarEnds(r, s, acc, frontier) ==
    LET next == (UNION {Ends(r, s, i) : i \in frontier}) \ acc
    IN  IF next = {} THEN acc ELSE StarEnds(r, s, acc \cup next, next)

\* pattern.test(s)
Test(r, s) == \E i \in 1..(Len(s) + 1) : Ends(r, s, i) # {}

(***************************************************************************)
(* DangerDetector: the ordered rule table and detectDanger.                *)
(***************************************************************************)
AlphaStar == RStar(RSet(Alpha))
\* -[a-zA-Z]*<c>[a-zA-Z]*
Flag(c) == RCat(<<RSet({"-"}), AlphaStar, RSet({c}), AlphaStar>>)
PipeTo(r) == RCat(<<RStar(RAny), RSet({"|"}), RStar(RSp), r>>)
Shell == RCat(<<ROpt(RLit(<<"b","a">>)), RLit(<<"s","h">>), RWb>>)

DANGER_PATTERNS == <<
    \* /\brm\s+(-[a-zA-Z]*f[a-zA-Z]*\s+|.*-[a-zA-Z]*r[a-zA-Z]*f)/
    [pattern |-> RCat(<<RWb, RLit(<<"r","m">>), RPlus(RSp),
                        RAlt(<<RCat(<<Flag("f"), RPlus(RSp)>>),
                               RCat(<<RStar(RAny), RSet({"-"}), AlphaStar,
                                      RSet({"r"}), AlphaStar, RSet({"f"})>>)>>)>>),
     reason |-> "Recursive force delete (rm -rf)"],
    \* /\brm\s+-[a-zA-Z]*r[a-zA-Z]*\s+\/(?!\S*tmp\b)/
    [pattern |-> RCat(<<RWb, RLit(<<"r","m">>), RPlus(RSp), Flag("r"), RPlus(RSp),
                        RSet({"/"}),
                        RNla(RCat(<<RStar(RNsp), RLit(<<"t","m","p">>), RWb>>))>>),
     reason |-> "Recursive delete from root"],
    \* /\bmkfs\b/
    [pattern |-> RCat(<<RWb, RLit(<<"m","k","f","s">>), RWb>>),
     reason |-> "Filesystem format"],
    \* /\bdd\s+.*of=\/dev\//
    [pattern |-> RCat(<<RWb, RLit(<<"d","d">>), RPlus(RSp), RStar(RAny),
                        RLit(<<"o","f","=","/","d","e","v","/">>)>>),
     reason |-> "Direct device write (dd)"],
    \* />\s*\/dev\/sd[a-z]/
    [pattern |-> RCat(<<RSet({">"}), RStar(RSp),
                        RLit(<<"/","d","e","v","/","s","d">>), RSet(Lower)>>),
     reason |-> "Direct write to disk device"],
    \* /\bDROP\s+(TABLE|DATABASE|SCHEMA)\b/i
    [pattern |-> RCat(<<RWb, RLitI(<<"d","r","o","p">>), RPlus(RSp),
                        RAlt(<<RLitI(<<"t","a","b","l","e">>),
                               RLitI(<<"d","a","t","a","b","a","s","e">>),
                               RLitI(<<"s","c","h","e","m","a">>)>>), RWb>>),
     reason |-> "SQL DROP operation"],
    \* /\bTRUNCATE\s+TABLE\b/i
    [pattern |-> RCat(<<RWb, RLitI(<<"t","r","u","n","c","a","t","e">>), RPlus(RSp),
                        RLitI(<<"t","a","b","l","e">>), RWb>>),
     reason |-> "SQL TRUNCATE TABLE"],
    \* /\bDELETE\s+FROM\s+\S+\s*(;|$)/i
    [pattern |-> RCat(<<RWb, RLitI(<<"d","e","l","e","t","e">>), RPlus(RSp),
                        RLitI(<<"f","r","o","m">>), RPlus(RSp), RPlus(RNsp),
                        RStar(RSp), RAlt(<<RSet({";"}), REol>>)>>),
     reason |-> "SQL DELETE without WHERE clause"],
    \* /\bcurl\b.*\|\s*(ba)?sh\b/
    [pattern |-> RCat(<<RWb, RLit(<<"c","u","r","l">>), RWb, PipeTo(Shell)>>),
     reason |-> "Pipe remote content to shell (curl|sh)"],
    \* /\bwget\b.*\|\s*(ba)?sh\b/
    [pattern |-> RCat(<<RWb, RLit(<<"w","g","e","t">>), RWb, PipeTo(Shell)>>),
     reason |-> "Pipe remote content to shell (wget|sh)"],
    \* /\bcurl\b.*\|\s*sudo\b/
    [pattern |-> RCat(<<RWb, RLit(<<"c","u","r","l">>), RWb,
                        PipeTo(RCat(<<RLit(<<"s","u","d","o">>), RWb>>))>>),
     reason |-> "Pipe remote content to sudo"],
    \* /\bchmod\s+(-[a-zA-Z]*\s+)?[0-7]*777\b/
    [pattern |-> RCat(<<RWb, RLit(<<"c","h","m","o","d">>), RPlus(RSp),
                        ROpt(RCat(<<RSet({"-"}), AlphaStar, RPlus(RSp)>>)),
                        RStar(RSet(Octal)), RLit(<<"7","7","7">>), RWb>>),
     reason |-> "chmod 777 (world-writable)"],
    \* /\bchown\s+-R\s+.*\s+\/(?!tmp\b|home\b)/
    [pattern |-> RCat(<<RWb, RLit(<<"c","h","o","w","n">>), RPlus(RSp),
                        RLit(<<"-","R">>), RPlus(RSp), RStar(RAny), RPlus(RSp),
                        RSet({"/"}),
                        RNla(RAlt(<<RCat(<<RLit(<<"t","m","p">>), RWb>>),
                                    RCat(<<RLit(<<"h","o","m","e">>), RWb>>)>>))>>),
     reason |-> "Recursive chown from root"],
    \* /\bsystemctl\s+(stop|disable|mask)\b/
    [pattern |-> RCat(<<RWb, RLit(<<"s","y","s","t","e","m","c","t","l">>), RPlus(RSp),
                        RAlt(<<RLit(<<"s","t","o","p">>),
                               RLit(<<"d","i","s","a","b","l","e">>),
                               RLit(<<"m","a","s","k">>)>>), RWb>>),
     reason |-> "Stopping/disabling system service"],
    \* /\bkillall\b/
    [pattern |-> RCat(<<RWb, RLit(<<"k","i","l","l","a","l","l">>), RWb>>),
     reason |-> "Kill all processes by name"],
    \* /\bkill\s+-9\b/
    [pattern |-> RCat(<<RWb, RLit(<<"k","i","l","l">>), RPlus(RSp),
                        RLit(<<"-","9">>), RWb>>),
     reason |-> "Force kill (SIGKILL)"],
    \* /\bfdisk\b/
    [pattern |-> RCat(<<RWb, RLit(<<"f","d","i","s","k">>), RWb>>),
     reason |-> "Disk partition modification"],
    \* /\bparted\b/
    [pattern |-> RCat(<<RWb, RLit(<<"p","a","r","t","e","d">>), RWb>>),
     reason |-> "Disk partition modification"],
    \* /:\(\)\s*\{[^}]*:\s*\|\s*:.*\}/
    [pattern |-> RCat(<<RLit(<<":","(",")">>), RStar(RSp), RSet({"{"}),
                        RStar(RNot({"}"})), RSet({":"}), RStar(RSp), RSet({"|"}),
                        RStar(RSp), RSet({":"}), RStar(RAny), RSet({"}"})>>),
     reason |-> "Fork bomb"],
    \* />\s*\/etc\//
    [pattern |-> RCat(<<RSet({">"}), RStar(RSp), RLit(<<"/","e","t","c","/">>)>>),
     reason |-> "Overwriting system config"],
    \* /\bsudo\s+rm\b/
    [pattern |-> RCat(<<RWb, RLit(<<"s","u","d","o">>), RPlus(RSp),
                        RLit(<<"r","m">>), RWb>>),
     reason |-> "Privileged delete"] >>

\* null
Null == "null"

\* the first matching rule's reason, or null
RECURSIVE FirstDanger(_, _)
FirstDanger(input, k) ==
    IF k > Len(DANGER_PATTERNS) THEN Null
    ELSE IF Test(DANGER_PATTERNS[k].pattern, input) THEN DANGER_PATTERNS[k].reason
    ELSE FirstDanger(input, k + 1)

detectDanger(input) == FirstDanger(input, 1)

(***************************************************************************)
(* Paths.  Split(s, c) is s.split(c); Resolve is node:path resolve on an   *)
(* absolute path: empty and "." segments are dropped, ".." removes the     *)
(* segment before it.                                                      *)
(***************************************************************************)
RECURSIVE Split(_, _)
Split(s, c) ==
    IF \A i \in 1..Len(s) : s[i] # c THEN <<s>>
    ELSE LET k == CHOOSE i \in 1..Len(s) : s[i] = c /\ \A j \in 1..(i - 1) : s[j] # c
         IN  <<SubSeq(s, 1, k - 1)>> \o Split(SubSeq(s, k + 1, Len(s)), c)

RECURSIVE ResolveParts(_, _, _)
ResolveParts(parts, k, acc) ==
    IF k > Len(parts) THEN acc
    ELSE IF parts[k] = <<>> \/ parts[k] = <<".">> THEN ResolveParts(parts, k + 1, acc)
    ELSE IF parts[k] = <<".", ".">>
         THEN ResolveParts(parts, k + 1,
                           IF acc = <<>> THEN acc ELSE SubSeq(acc, 1, Len(acc) - 1))
    ELSE ResolveParts(parts, k + 1, Append(acc, parts[k]))

\* the components of the normalized absolute path
Components(p) == ResolveParts(Split(p, "/"), 1, <<>>)

IsPrefix(a, b) == Len(a) <= Len(b) /\ SubSeq(b, 1, Len(a)) = a

\* a containment test on the raw strings, without normalization or separator
isPathAllowedByStringPrefix(allowedPaths, p) ==
    IF Len(allowedPaths) = 0 THEN TRUE
    ELSE \E k \in 1..Len(allowedPaths) : IsPrefix(allowedPaths[k], p)

\* SessionManager.isPathAllowed over the configured allowed roots
isPathAllowed(allowedPaths, p) ==
    IF Len(allowedPaths) = 0 THEN TRUE
    ELSE \E k \in 1..Len(allowedPaths) :
            IsPrefix(Components(allowedPaths[k]), Components(p))

(***************************************************************************)
(* findDisallowedPath: the scan of an input for absolute paths and cd      *)
(* targets (send-command.ts).                                              *)
(***************************************************************************)
MaxOf(S) == CHOOSE x \in S : \A y \in S : y <= x

\* (\/{1,2}[\w./-]+)
PathGroup ==
    RCat(<<RSet({"/"}), ROpt(RSet({"/"})), RPlus(RSet(WordCh \cup {".", "/", "-"}))>>)
\* (?:^|\s|=|"|') followed by the group: where the group starts for a match
\* that starts at i, or 0
PathGroupStart(s, i) ==
    IF i = 1 /\ Ends(PathGroup, s, 1) # {} THEN 1
    ELSE IF i <= Len(s) /\ s[i] \in (SpaceCh \cup {"=", "\"", "'"})
            /\ Ends(PathGroup, s, i + 1) # {} THEN i + 1
    ELSE 0

\* the captures of successive pathPattern.exec(input) calls, in order
RECURSIVE PathMatches(_, _)
PathMatches(s, from) ==
    LET starts == {i \in from..Len(s) : PathGroupStart(s, i) # 0}
    IN  IF starts = {} THEN <<>>
        ELSE LET i == CHOOSE x \in starts : \A y \in starts : x <= y
                 g == PathGroupStart(s, i)
                 e == MaxOf(Ends(PathGroup, s, g))
             IN  <<SubSeq(s, g, e - 1)>> \o PathMatches(s, e)

\* /\bcd\s+([^\s;|&]+)/g
CdHead == RCat(<<RWb, RLit(<<"c","d">>), RPlus(RSp)>>)
CdGroup == RPlus(RNot(SpaceCh \cup {";", "|", "&"}))
CdPattern == RCat(<<CdHead, CdGroup>>)
RECURSIVE CdMatches(_, _)
CdMatches(s, from) ==
    LET starts == {i \in from..Len(s) : Ends(CdPattern, s, i) # {}}
    IN  IF starts = {} THEN <<>>
        ELSE LET i == CHOOSE x \in starts : \A y \in starts : x <= y
                 g == MaxOf(Ends(CdHead, s, i))
                 e == MaxOf(Ends(CdGroup, s, g))
             IN  <<SubSeq(s, g, e - 1)>> \o CdMatches(s, e)

SafeDevices ==
    { <<"/","d","e","v","/","n","u","l","l">>,
      <<"/","d","e","v","/","s","t","d","i","n">>,
      <<"/","d","e","v","/","s","t","d","o","u","t">>,
      <<"/","d","e","v","/","s","t","d","e","r","r">> }

RECURSIVE FirstDisallowed(_, _, _, _)
FirstDisallowed(allowedPaths, ps, k, skipSafe) ==
    IF k > Len(ps) THEN Null
    ELSE IF skipSafe /\ ps[k] \in SafeDevices
         THEN FirstDisallowed(allowedPaths, ps, k + 1, skipSafe)
    ELSE IF ps[k][1] = "/" /\ ~isPathAllowed(allowedPaths, ps[k]) THEN ps[k]
    ELSE FirstDisallowed(allowedPaths, ps, k + 1, skipSafe)

\* the first disallowed path of the input, or null
findDisallowedPath(allowedPaths, input) ==
    LET p == FirstDisallowed(allowedPaths, PathMatches(input, 1), 1, TRUE)
    IN  IF p # Null THEN p
        ELSE FirstDisallowed(allowedPaths, CdMatches(input, 1), 1, FALSE)

\* input.trim()
RECURSIVE Trim(_)
Trim(s) ==
    IF s = <<>> THEN s
    ELSE IF s[1] \in SpaceCh THEN Trim(Tail(s))
    ELSE IF s[Len(s)] \in SpaceCh THEN Trim(SubSeq(s, 1, Len(s) - 1))
    ELSE s

(***************************************************************************)
(* The secret redactor (redactSecrets and its SECRET_PATTERNS).            *)
(***************************************************************************)
AlnumCh == Alpha \cup Digit
\* ['"]?
OptQuote == ROpt(RSet({"'", "\""}))
\* \b(<name>\s*[:=]\s*['"]?)([0-9a-zA-Z_\-]{20,}) under the i flag
Assigned(name) ==
    RCat(<<RWb, name, RStar(RSp), RSet({":", "="}), RStar(RSp), OptQuote,
           RAtLeast(RSet(WordCh \cup {"-"}), 20)>>)
\* \b(<prefix>[0-9a-zA-Z]{n,})\b
Prefixed(prefix, n) == RCat(<<RWb, RLit(prefix), RAtLeast(RSet(AlnumCh), n), RWb>>)

\* the labels and the fixed texts of the rules
L_AWS_ACCESS_KEY == <<"A","W","S","_","A","C","C","E","S","S","_","K","E","Y">>
L_POSSIBLE_AWS_SECRET == <<"P","O","S","S","I","B","L","E","_","A","W","S","_","S","E","C","R","E","T">>
L_GITHUB_PAT == <<"G","I","T","H","U","B","_","P","A","T">>
L_GITHUB_OAUTH == <<"G","I","T","H","U","B","_","O","A","U","T","H">>
L_GITHUB_APP == <<"G","I","T","H","U","B","_","A","P","P">>
L_API_KEY == <<"A","P","I","_","K","E","Y">>
L_PRIVATE_KEY == <<"P","R","I","V","A","T","E","_","K","E","Y">>
L_TOKEN == <<"T","O","K","E","N">>
L_PASSWORD_IN_URL == <<"P","A","S","S","W","O","R","D","_","I","N","_","U","R","L">>
BEGIN_ == <<"-","-","-","-","-","B","E","G","I","N"," ">>
PRIVATE_KEY_ == <<"P","R","I","V","A","T","E"," ","K","E","Y","-","-","-","-","-">>
REDACTED_ == <<"[","R","E","D","A","C","T","E","D",":">>

SECRET_PATTERNS == <<
    \* /\b(AKIA[0-9A-Z]{16})\b/g
    [pattern |-> RCat(<<RWb, RLit(<<"A","K","I","A">>), RRep(RSet(Digit \cup Upper), 16), RWb>>),
     label |-> L_AWS_ACCESS_KEY],
    \* /\b([0-9a-zA-Z/+]{40})\b/g
    [pattern |-> RCat(<<RWb, RRep(RSet(AlnumCh \cup {"/", "+"}), 40), RWb>>),
     label |-> L_POSSIBLE_AWS_SECRET],
    \* /\b(ghp_[0-9a-zA-Z]{36,})\b/g
    [pattern |-> Prefixed(<<"g","h","p","_">>, 36), label |-> L_GITHUB_PAT],
    \* /\b(gho_[0-9a-zA-Z]{36,})\b/g
    [pattern |-> Prefixed(<<"g","h","o","_">>, 36), label |-> L_GITHUB_OAUTH],
    \* /\b(ghs_[0-9a-zA-Z]{36,})\b/g
    [pattern |-> Prefixed(<<"g","h","s","_">>, 36), label |-> L_GITHUB_APP],
    \* /\b(sk-[0-9a-zA-Z]{20,})\b/g
    [pattern |-> Prefixed(<<"s","k","-">>, 20), label |-> L_API_KEY],
    \* /\b(api[_-]?key\s*[:=]\s*['"]?)([0-9a-zA-Z_\-]{20,})/gi
    [pattern |-> Assigned(RCat(<<RLitI(<<"a","p","i">>), ROpt(RSet({"_", "-"})),
                                 RLitI(<<"k","e","y">>)>>)),
     label |-> L_API_KEY],
    \* /-----BEGIN (RSA |EC |DSA |OPENSSH )?PRIVATE KEY-----/g
    [pattern |-> RCat(<<RLit(BEGIN_), 
                        ROpt(RAlt(<<RLit(<<"R","S","A"," ">>), RLit(<<"E","C"," ">>),
                                    RLit(<<"D","S","A"," ">>),
                                    RLit(<<"O","P","E","N","S","S","H"," ">>)>>)),
                        RLit(PRIVATE_KEY_)>>),
     label |-> L_PRIVATE_KEY],
    \* /\b(token\s*[:=]\s*['"]?)([0-9a-zA-Z_\-]{20,})/gi
    [pattern |-> Assigned(RLitI(<<"t","o","k","e","n">>)), label |-> L_TOKEN],
    \* /:\/\/[^:]+:([^@]{8,})@/g
    [pattern |-> RCat(<<RLit(<<":","/","/">>), RAtLeast(RNot({":"}), 1), RSet({":"}),
                        RAtLeast(RNot({"@"}), 8), RSet({"@"})>>),
     label |-> L_PASSWORD_IN_URL] >>

NOTICE_HEAD == <<"\n","\n",".",".","."," ","[","o","u","t","p","u","t"," ","t","r","u","n","c","a","t","e","d"," ","a","t"," ">>
NOTICE_TAIL == <<" ","c","h","a","r","s","]">>

\* `[REDACTED:${label}]`
Marker(label) == REDACTED_ \o label \o <<"]">>

SetMax(S) == CHOOSE x \in S : \A y \in S : y <= x

SetMin(S) == CHOOSE x \in S : \A y \in S : x <= y

\* the positions from i on at which a (non-empty) match of r starts
MatchStarts(r, s, i) == {j \in i..Len(s) : Ends(r, s, j) \ {j} # {}}
\* the end of the match that starts at j: the quantifiers of the patterns
\* are greedy, so the match is the longest one
MatchEnd(r, s, j) == SetMax(Ends(r, s, j) \ {j})

\* text.replace(pattern, by) for a pattern with the g flag, from position i
\* on: the leftmost match is replaced and the search goes on behind it
RECURSIVE ReplaceFrom(_, _, _, _)
ReplaceFrom(r, s, i, by) ==
    LET starts == MatchStarts(r, s, i)
    IN  IF starts = {} THEN SubSeq(s, i, Len(s))
        ELSE SubSeq(s, i, SetMin(starts) - 1) \o by
                 \o ReplaceFrom(r, s, MatchEnd(r, s, SetMin(starts)), by)
ReplaceAll(r, s, by) == ReplaceFrom(r, s, 1, by)


\* result.replace(pattern, `[REDACTED:${label}]`) for rule k
Redact(k, text) ==
    ReplaceAll(SECRET_PATTERNS[k].pattern, text, Marker(SECRET_PATTERNS[k].label))

\* redactSecrets(text): the loop over the ten rules, in their order
redactSecrets(text) ==
    Redact(10, Redact(9, Redact(8, Redact(7, Redact(6,
        Redact(5, Redact(4, Redact(3, Redact(2, Redact(1, text))))))))))

(***************************************************************************)
(* Bounds of the model.                                                    *)
(***************************************************************************)
\* config.maxSessions
maxSessions == 1
\* terminals spawned in one behaviour
MaxSpawns == 2
\* writes accepted by all terminals together in one behaviour
MaxWrites == 2
\* output chunks received from all children together in one behaviour
MaxChunks == 2
\* session.lastActivity is followed up to this many ms of inactivity
MaxIdleMs == 300
\* processes in the process table besides the session's own process
MaxProcs == 3

(***************************************************************************)
(* Constants of the program.                                               *)
(***************************************************************************)
\* const OUTPUT_SETTLE_MS = 300
OUTPUT_SETTLE_MS == 300
\* setTimeout(check, 50): the polling period of waitForSettled, and the
\* step by which time advances
POLL_MS == 50
\* if (outputLines.length > 2000) outputLines = outputLines.slice(-1000)
PIPE_MAX_LINES == 2000
PIPE_KEEP_LINES == 1000
\* new Terminal({ cols, rows, scrollback: 1000 }) with rows = 40
PTY_SCROLLBACK == 1000
PTY_ROWS == 40
\* timeout_ms: z.number().min(100).max(60000).optional().default(5000)
DEFAULT_TIMEOUT_MS == 5000
\* MCP_TERMINAL_MAX_OUTPUT when the variable is not set
DEFAULT_MAX_OUTPUT == 20000
\* the least max_output_chars the schema of send_command accepts
MIN_MAX_OUTPUT_CHARS == 100
\* setTimeout: a delay in ms outside 1 .. 2^31 - 1 is replaced by 1
TIMEOUT_MAX == 2147483647

(***************************************************************************)
(* The literal strings the callers submit.                                 *)
(***************************************************************************)
S_tmp == <<"/","t","m","p">>
S_tmp_x == <<"/","t","m","p","/","x">>
S_tmpfoo == <<"/","t","m","p","f","o","o">>
S_etc == <<"/","e","t","c">>
S_root == <<"/">>
S_usr_local == <<"/","u","s","r","/","l","o","c","a","l">>
S_tmp_dotdot_etc == <<"/","t","m","p","/",".",".","/","e","t","c">>
S_tmp_slash == <<"/","t","m","p","/">>
S_tmp_x_dot == <<"/","/","t","m","p","/",".","/","x">>
S_usr == <<"/","u","s","r">>
S_etc_h == <<"/","e","t","c","/","h">>
S_tmp_x_y == <<"/","t","m","p","/","x","/","y">>

I_ls_tmp == <<"l","s"," ","/","t","m","p">>
I_cat_etc == <<"c","a","t"," ","/","e","t","c","/","h">>
I_rm_tmp == <<"r","m"," ","-","r","f"," ","/","t","m","p","/","x">>
I_rm_etc == <<"r","m"," ","-","r","f"," ","/","e","t","c">>
Inputs == {I_ls_tmp, I_cat_etc, I_rm_tmp, I_rm_etc}

C_bash == <<"b","a","s","h">>
C_bin_bash == <<"/","b","i","n","/","b","a","s","h">>
C_nc == <<"n","c">>
C_usr_nc == <<"/","u","s","r","/","n","c">>
Commands == {C_bash, C_bin_bash, C_nc, C_usr_nc}

\* randomUUID().slice(0, 8): any of the ids
Ids == 1..(maxSessions + 1)
Pids == 1..MaxSpawns
Chunks == {"out"}

VARIABLES
    config,     \* ServerConfig: dangerDetection, allowedPaths, allowedCommands,
                \* blockedCommands, idleTimeout, defaultTimeout
    sessions,   \* SessionManager.sessions: id -> Session
    terminals,  \* every terminal spawned so far: pid -> TerminalWrapper state
    creating,   \* createSession calls suspended in createTerminal (by pid)
    waits,      \* the waitForOutput calls in flight, oldest first
    idleTimers, \* id -> ms until each live timer armed for id fires, in the
                \* order of arming; the last is the one SessionManager.idleTimers holds
    last        \* the operation completed by the last step and its outcome

vars == <<config, sessions, terminals, creating, waits, idleTimers, last>>

\* the response of a handler that waited for output; elapsed and timeoutMs
\* are the duration and the budget of that wait
NoResponse ==
    [is_complete |-> FALSE, is_alive |-> FALSE, warning |-> FALSE,
     elapsed |-> 0, timeoutMs |-> 0, pid |-> 0]

NoOp ==
    [op |-> "none", sid |-> 0, input |-> <<>>, cwd |-> <<>>, result |-> "none",
     resp |-> NoResponse, output |-> <<>>, failing |-> {},
     text |-> <<>>, maxChars |-> 0, audit |-> <<>>]
Done(op, sid, input, result) ==
    [op |-> op, sid |-> sid, input |-> input, cwd |-> <<>>, result |-> result,
     resp |-> NoResponse, output |-> <<>>, failing |-> {},
     text |-> <<>>, maxChars |-> 0, audit |-> <<>>]
DoneCreate(command, cwd, result) ==
    [op |-> "createSession", sid |-> 0, input |-> command, cwd |-> cwd, result |-> result,
     resp |-> NoResponse, output |-> <<>>, failing |-> {},
     text |-> <<>>, maxChars |-> 0, audit |-> <<>>]
DoneWait(op, sid, input, resp) ==
    [op |-> op, sid |-> sid, input |-> input, cwd |-> <<>>, result |-> "ok",
     resp |-> resp, output |-> <<>>, failing |-> {},
     text |-> <<>>, maxChars |-> 0, audit |-> <<>>]
\* a handler returned output for the terminal text `text`, cut to maxChars
DoneOutput(op, command, text, maxChars, output) ==
    [op |-> op, sid |-> 0, input |-> command, cwd |-> <<>>, result |-> "ok",
     resp |-> NoResponse, output |-> output, failing |-> {},
     text |-> text, maxChars |-> maxChars, audit |-> <<>>]
\* the outcome `done` of a handler that called audit(event, ...) once for
\* each of `events` on its way
Audited(done, events) == [done EXCEPT !.audit = events]
\* readScreen returned the lines of output
DoneRead(pid, fullScreen, output) ==
    [op |-> "readScreen", sid |-> pid, input |-> <<>>, cwd |-> <<>>,
     result |-> IF fullScreen THEN "full" ELSE "new", resp |-> NoResponse,
     output |-> output, failing |-> {},
     text |-> <<>>, maxChars |-> 0, audit |-> <<>>]

(***************************************************************************)
(* Terminal (terminal.ts): the closure state of one wrapper.               *)
(***************************************************************************)
\* the chunks the children print, split at "\n" as appendOutput does:
\* "out\n", "A\n", "B\n", a prompt without newline, a prompt and three newlines, and
\* PIPE_MAX_LINES lines at once
ChunkParts(chunk) ==
    CASE chunk = "out" -> << <<"o", "u", "t">>, <<>> >>
      [] chunk = "A" -> << <<"A">>, <<>> >>
      [] chunk = "B" -> << <<"B">>, <<>> >>
      [] chunk = "$ " -> << <<"$", " ">> >>
      [] chunk = "$ blank" -> << <<"$", " ">>, <<>>, <<>>, <<>> >>
      [] chunk = "bulk" ->
           [k \in 1..(PIPE_MAX_LINES + 1) |-> IF k <= PIPE_MAX_LINES THEN <<"x">> ELSE <<>>]

\* mode, isAlive: the wrapper's fields; disposed: dispose() has run;
\* stdin: what was transmitted to the child; buf: the chunks since the last
\* write (outputBuffer / newOutputBuffer); hist: the lines kept for full
\* reads (the xterm buffer / outputLines); emitted: every chunk received
\* (its length is outputGeneration); quiet: ms since lastOutputTime, up to
\* OUTPUT_SETTLE_MS; promptPattern: the detected prompt line or null;
\* running: the child process has not terminated; signals: how many times
\* kill() and dispose() have signalled the process
NewTerminal(mode) ==
    [mode |-> mode, isAlive |-> TRUE, disposed |-> FALSE, stdin |-> <<>>, buf |-> <<>>,
     hist |-> <<>>, emitted |-> <<>>, quiet |-> 0, promptPattern |-> Null,
     running |-> TRUE, signals |-> 0]

\* createPtyTerminal: write(data)
ptyWrite(t, data) ==
    IF ~t.isAlive THEN [ok |-> FALSE, t |-> t]
    ELSE [ok |-> TRUE, t |-> [t EXCEPT !.buf = <<>>, !.stdin = Append(@, data)]]

\* a write that does not look at liveness
pipeWriteUnchecked(t, data) ==
    [ok |-> TRUE, t |-> [t EXCEPT !.buf = <<>>, !.stdin = Append(@, data)]]

\* a write that puts the data ahead of what was written before
pipeWritePrepend(t, data) ==
    IF ~t.isAlive THEN [ok |-> FALSE, t |-> t]
    ELSE [ok |-> TRUE, t |-> [t EXCEPT !.buf = <<>>, !.stdin = <<data>> \o @]]

\* createPipeTerminal: write(data)
pipeWrite(t, data) ==
    IF ~t.isAlive THEN [ok |-> FALSE, t |-> t]
    ELSE [ok |-> TRUE, t |-> [t EXCEPT !.buf = <<>>, !.stdin = Append(@, data)]]

\* a write that also forgets the detected prompt
termWriteForgetPrompt(t, data) ==
    LET w == IF t.mode = "pty" THEN ptyWrite(t, data) ELSE pipeWrite(t, data)
    IN  [ok |-> w.ok, t |-> [w.t EXCEPT !.promptPattern = Null]]

termWrite(t, data) == IF t.mode = "pty" THEN ptyWrite(t, data) ELSE pipeWrite(t, data)

\* the signals whose default disposition terminates the process; an
\* undefined signal is SIGTERM in pipe mode and SIGHUP in pty mode
Terminates(signal) == signal \in {Null, "SIGTERM", "SIGKILL", "SIGHUP"}

\* kill(signal): signals once if alive, flips liveness
termKillSignal(t, signal) ==
    IF t.isAlive
    THEN [t EXCEPT !.isAlive = FALSE, !.signals = @ + 1,
                   !.running = IF Terminates(signal) THEN FALSE ELSE @]
    ELSE t

\* kill(): the default signal
termKill(t) == termKillSignal(t, Null)

\* a dispose that signals the process whether or not it is alive
termDisposeUnguarded(t) ==
    [t EXCEPT !.isAlive = FALSE, !.disposed = TRUE, !.signals = @ + 1,
              !.running = FALSE]

\* dispose(): terminates if still alive, releases the emulator
termDispose(t) ==
    [t EXCEPT !.isAlive = FALSE, !.disposed = TRUE,
              !.signals = IF t.isAlive THEN @ + 1 ELSE @,
              !.running = IF t.isAlive THEN FALSE ELSE @]

\* an exit handler that leaves the wrapper alive
termExitStaysAlive(t) == [t EXCEPT !.running = FALSE]

\* onExit / proc.on("exit") / proc.on("error")
termExit(t) == [t EXCEPT !.isAlive = FALSE, !.running = FALSE]

\* text appended to the lines so far: the first part continues the last line
appendLines(lines, parts) ==
    IF lines = <<>> THEN parts
    ELSE SubSeq(lines, 1, Len(lines) - 1) \o <<lines[Len(lines)] \o parts[1]>> \o Tail(parts)

\* lines.slice(-n)
KeepLast(lines, n) ==
    IF Len(lines) > n THEN SubSeq(lines, Len(lines) - n + 1, Len(lines)) ELSE lines

\* an appendOutput that keeps only the lines of the latest chunk
pipeAppendOutputNoHistory(t, chunk) ==
    [t EXCEPT !.buf = Append(@, chunk),
              !.hist = ChunkParts(chunk),
              !.emitted = Append(@, chunk),
              !.quiet = 0]

\* createPipeTerminal: appendOutput(data)
pipeAppendOutput(t, chunk) ==
    LET lines == appendLines(t.hist, ChunkParts(chunk))
    IN  [t EXCEPT !.buf = Append(@, chunk),
                  !.hist = IF Len(lines) > PIPE_MAX_LINES
                           THEN KeepLast(lines, PIPE_KEEP_LINES) ELSE lines,
                  !.emitted = Append(@, chunk),
                  !.quiet = 0]

\* createPtyTerminal: ptyProcess.onData; the emulator keeps scrollback + rows lines
ptyOnData(t, chunk) ==
    [t EXCEPT !.buf = Append(@, chunk),
              !.hist = KeepLast(appendLines(t.hist, ChunkParts(chunk)),
                                PTY_SCROLLBACK + PTY_ROWS),
              !.emitted = Append(@, chunk),
              !.quiet = 0]

\* onData / appendOutput
termData(t, chunk) ==
    IF t.mode = "pty" THEN ptyOnData(t, chunk) ELSE pipeAppendOutput(t, chunk)

IsBlank(line) == \A i \in 1..Len(line) : line[i] \in SpaceCh

\* while (lines.length > 0 && lines[lines.length - 1].trim() === "") lines.pop()
RECURSIVE TrimTrailingBlank(_)
TrimTrailingBlank(lines) ==
    IF lines # <<>> /\ IsBlank(lines[Len(lines)])
    THEN TrimTrailingBlank(SubSeq(lines, 1, Len(lines) - 1))
    ELSE lines

\* the lines of the text of a sequence of chunks
RECURSIVE BufLines(_, _, _)
BufLines(buf, k, acc) ==
    IF k > Len(buf) THEN acc
    ELSE BufLines(buf, k + 1, appendLines(acc, ChunkParts(buf[k])))

\* readScreen(fullScreen), as the lines of the text returned
readScreen(t, fullScreen) ==
    IF t.mode = "pty"
    THEN IF fullScreen THEN TrimTrailingBlank(t.hist)
         ELSE TrimTrailingBlank(KeepLast(t.hist, PTY_ROWS))
    ELSE IF fullScreen THEN t.hist
         ELSE BufLines(t.buf, 1, <<>>)

RECURSIVE SumOver(_, _)
SumOver(S, f) ==
    IF S = {} THEN 0
    ELSE LET x == CHOOSE y \in S : TRUE IN f[x] + SumOver(S \ {x}, f)
TotalWrites == SumOver(DOMAIN terminals, [p \in DOMAIN terminals |-> Len(terminals[p].stdin)])
TotalSpawns == Cardinality(DOMAIN terminals)

TotalBuffered == SumOver(DOMAIN terminals, [p \in DOMAIN terminals |-> Len(terminals[p].emitted)])

(***************************************************************************)
(* SessionManager (session-manager.ts).                                    *)
(***************************************************************************)
\* command.split("/").pop()
Basename(command) == LET parts == Split(command, "/") IN parts[Len(parts)]

Includes(list, x) == \E k \in 1..Len(list) : list[k] = x

\* validateCommand with the blocklist test dropped
validateCommandNoBlock(cfg, command) ==
    LET base == Basename(command)
    IN  IF Len(cfg.allowedCommands) > 0 /\ ~Includes(cfg.allowedCommands, base)
        THEN "not_allowed"
        ELSE "ok"

\* validateCommand: "ok", or the policy error it throws
validateCommand(cfg, command) ==
    LET base == Basename(command)
    IN  IF Len(cfg.allowedCommands) > 0 /\ ~Includes(cfg.allowedCommands, base)
        THEN "not_allowed"
        ELSE IF Includes(cfg.blockedCommands, base) THEN "blocked"
        ELSE "ok"

\* the capacity test with > in place of >=
atCapacityOffByOne(n) == n > maxSessions

\* this.sessions.size >= this.config.maxSessions
atCapacity(n) == n >= maxSessions

\* a working-directory test that compares strings, not path components
cwdAllowedByStringPrefix(cfg, cwd) ==
    Len(cfg.allowedPaths) = 0
    \/ \E k \in 1..Len(cfg.allowedPaths) : IsPrefix(cfg.allowedPaths[k], cwd)

\* the working-directory test of createSession
cwdAllowed(cfg, cwd) == isPathAllowed(cfg.allowedPaths, cwd)

\* createSession up to the spawn: "ok", or the error it throws
createCheck(cfg, n, command, cwd) ==
    IF atCapacity(n) THEN "capacity"
    ELSE IF validateCommand(cfg, command) # "ok" THEN validateCommand(cfg, command)
    ELSE IF ~cwdAllowed(cfg, cwd) THEN "path"
    ELSE "ok"

\* idleFor: ms since session.lastActivity, up to MaxIdleMs
NewSession(pid) == [pid |-> pid, isAlive |-> TRUE, pending |-> {}, idleFor |-> 0]

RemoveAt(s, k) == SubSeq(s, 1, k - 1) \o SubSeq(s, k + 1, Len(s))

\* an armIdleTimer that arms nothing
armIdleTimerNever(cfg, timers, id) == timers

\* a clearIdleTimer that leaves the timer
clearIdleTimerNoOp(timers, id) == timers

\* setTimeout(callback, this.config.idleTimeout): the delay in ms the runtime
\* arms; config.idleTimeout is kept in periods of POLL_MS, so that delays
\* above TIMEOUT_MAX ms can be written
setTimeoutDelay(periods) ==
    IF periods >= 1 /\ periods <= TIMEOUT_MAX \div POLL_MS THEN periods * POLL_MS ELSE 1

\* the live timers of id without the k-th
WithoutTimer(timers, id, k) ==
    LET rest == RemoveAt(timers[id], k)
    IN  IF rest = <<>> THEN [i \in DOMAIN timers \ {id} |-> timers[i]]
        ELSE [timers EXCEPT ![id] = rest]

\* the delay left on the timer SessionManager.idleTimers holds for id
TimerOf(timers, id) == timers[id][Len(timers[id])]

\* clearIdleTimer(id): clearTimeout on the timer the map holds, and delete
clearIdleTimer(timers, id) ==
    IF id \in DOMAIN timers THEN WithoutTimer(timers, id, Len(timers[id])) ELSE timers

\* timers with one more live timer for id, which the map then holds
WithTimer(timers, id, delay) ==
    [i \in DOMAIN timers \cup {id} |->
        IF i = id THEN Append(IF id \in DOMAIN timers THEN timers[id] ELSE <<>>, delay)
        ELSE timers[i]]

\* a resetIdleTimer that arms the new timer without cancelling the previous one
resetIdleTimerNoCancel(cfg, timers, id) ==
    WithTimer(timers, id, setTimeoutDelay(cfg.idleTimeout))

\* resetIdleTimer(id)
resetIdleTimer(cfg, timers, id) ==
    WithTimer(clearIdleTimer(timers, id), id, setTimeoutDelay(cfg.idleTimeout))

\* createSession: if (this.config.idleTimeout > 0) this.resetIdleTimer(id)
armIdleTimer(cfg, timers, id) ==
    IF cfg.idleTimeout > 0 THEN resetIdleTimer(cfg, timers, id) ELSE timers

\* touchSession(id): the sessions and the timers it leaves
touchedSessions(sess, id) ==
    IF id \in DOMAIN sess THEN [sess EXCEPT ![id].idleFor = 0] ELSE sess
touchedTimers(cfg, sess, timers, id) ==
    IF id \in DOMAIN sess /\ cfg.idleTimeout > 0
    THEN resetIdleTimer(cfg, timers, id) ELSE timers

\* the last line that is not blank among lines[lo..k], trimmed, or the empty line
RECURSIVE LastNonBlank(_, _, _)
LastNonBlank(lines, k, lo) ==
    IF k < lo \/ k < 1 THEN <<>>
    ELSE IF ~IsBlank(lines[k]) THEN Trim(lines[k])
    ELSE LastNonBlank(lines, k - 1, lo)

\* detectPromptPattern(startupOutput): the prompt line, or null; every
\* KNOWN_PROMPTS pattern accepts only lines that /[$#%>]\s*$/ accepts
detectPromptPattern(lines) ==
    LET lastLine == LastNonBlank(lines, Len(lines), 1)
    IN  IF lastLine = <<>> THEN Null
        ELSE IF lastLine[Len(lastLine)] \in {"$", "#", "%", ">"} THEN lastLine
        ELSE IF Len(lastLine) < 60 /\ lastLine[Len(lastLine)] = ":" THEN lastLine
        ELSE Null

IsSuffix(a, b) == Len(a) <= Len(b) /\ SubSeq(b, Len(b) - Len(a) + 1, Len(b)) = a

\* endsWithPrompt(output, promptPattern)
endsWithPrompt(lines, pattern) ==
    IF pattern = Null THEN FALSE
    ELSE LET l == LastNonBlank(lines, Len(lines), Len(lines) - 2)
         IN  l # <<>> /\ IsSuffix(pattern, l)

\* a getSession that returns the cached flag
getSessionNoSync(sess, terms, id) == sess

\* a getSession that drops the session it finds not alive
getSessionForgetDead(sess, terms, id) ==
    IF terms[sess[id].pid].isAlive THEN sess
    ELSE [i \in DOMAIN sess \ {id} |-> sess[i]]

\* a getSession that also refreshes lastActivity
getSessionRefreshing(sess, terms, id) ==
    [sess EXCEPT ![id].isAlive = terms[sess[id].pid].isAlive, ![id].idleFor = 0]

\* getSession(id) on a registered id: the table after
\* session.isAlive = session.terminal.isAlive
getSession(sess, terms, id) ==
    [sess EXCEPT ![id].isAlive = terms[sess[id].pid].isAlive]

\* getSession(id): throws not-found, or returns the re-synchronized session;
\* the result tells whether the cached flag was stale
GetSessionCall(id) ==
    IF id \notin DOMAIN sessions
    THEN /\ last' = Done("getSession", id, <<>>, "not_found")
         /\ UNCHANGED <<config, sessions, terminals, creating, waits, idleTimers>>
    ELSE /\ sessions' = getSession(sessions, terminals, id)
         /\ last' = [Done("getSession", id, <<>>,
                          IF sessions[id].isAlive = terminals[sessions[id].pid].isAlive
                          THEN "found" ELSE "resynced")
                       EXCEPT !.resp.is_alive = sessions'[id].isAlive]
         /\ UNCHANGED <<config, terminals, creating, waits, idleTimers>>

\* whether createPtyTerminal and createPipeTerminal succeed for a call
SpawnAttempts == [pty : BOOLEAN, pipe : BOOLEAN]

\* createTerminal with the two attempts in the other order
createTerminalPipeFirst(a) ==
    IF a.pipe THEN "pipe" ELSE IF a.pty THEN "pty" ELSE "fail"

\* createTerminal(options): the mode of the wrapper it returns, "fail" when it throws
createTerminal(a) ==
    IF a.pty THEN "pty" ELSE IF a.pipe THEN "pipe" ELSE "fail"

\* what createTerminal logs when the pty attempt threw
PtyFailed == <<"node-pty failed, falling back to pipe mode">>

\* createSession, from the call to the suspension in createTerminal; the
\* step records whether the pty attempt was logged as failed
CreateBeginWith(command, cwd, a) ==
    LET r == createCheck(config, Cardinality(DOMAIN sessions), command, cwd)
        pid == TotalSpawns + 1
        spawn == createTerminal(a)
        logged == IF a.pty THEN <<>> ELSE PtyFailed
    IN  IF r # "ok"
        THEN /\ last' = DoneCreate(command, cwd, r)
             /\ UNCHANGED <<config, sessions, terminals, creating, waits, idleTimers>>
        ELSE IF spawn = "fail"
        THEN /\ last' = [DoneCreate(command, cwd, "spawn_error") EXCEPT !.text = logged]
             /\ UNCHANGED <<config, sessions, terminals, creating, waits, idleTimers>>
        ELSE /\ TotalSpawns < MaxSpawns
             /\ terminals' = [p \in DOMAIN terminals \cup {pid} |->
                                IF p = pid THEN NewTerminal(spawn) ELSE terminals[p]]
             /\ creating' = creating \cup {pid}
             /\ last' = [DoneCreate(command, cwd, "spawned") EXCEPT !.text = logged]
             /\ UNCHANGED <<config, sessions, waits, idleTimers>>

\* createSession up to the suspension, for the calls in which createTerminal ends as `spawn`
CreateBegin(command, cwd, spawn) ==
    \E a \in SpawnAttempts : createTerminal(a) = spawn /\ CreateBeginWith(command, cwd, a)

\* createSession, from the resumption after the startup grace period to the return
CreateFinish(pid, id) ==
    /\ pid \in creating
    /\ sessions' = [i \in DOMAIN sessions \cup {id} |->
                      IF i = id THEN NewSession(pid) ELSE sessions[i]]
    /\ creating' = creating \ {pid}
    /\ terminals' = [terminals EXCEPT ![pid].promptPattern =
                                       detectPromptPattern(readScreen(terminals[pid], FALSE))]
    /\ idleTimers' = armIdleTimer(config, idleTimers, id)
    /\ last' = Done("createSession_return", id, <<>>, "registered")
    /\ UNCHANGED <<config, waits>>

\* the checkAlive interval of createSession
CheckAlive(id) ==
    /\ id \in DOMAIN sessions
    /\ sessions[id].isAlive
    /\ ~terminals[sessions[id].pid].isAlive
    /\ sessions' = [sessions EXCEPT ![id].isAlive = FALSE]
    /\ last' = NoOp
    /\ UNCHANGED <<config, terminals, creating, waits, idleTimers>>

\* closeSession(id, signal) on a registered session: kill, dispose, delete,
\* clearIdleTimer, on st = the table, the terminals and the timers
closeSession(st, id, signal) ==
    LET pid == st.sessions[id].pid
    IN  [sessions |-> [i \in DOMAIN st.sessions \ {id} |-> st.sessions[i]],
         terminals |-> [st.terminals EXCEPT ![pid] = termDispose(termKillSignal(@, signal))],
         idleTimers |-> clearIdleTimer(st.idleTimers, id)]

Manager == [sessions |-> sessions, terminals |-> terminals, idleTimers |-> idleTimers]

DoClose(id, signal) ==
    LET st == closeSession(Manager, id, signal)
    IN  /\ terminals' = st.terminals
        /\ sessions' = st.sessions
        /\ idleTimers' = st.idleTimers

\* the ids of a set in ascending order
RECURSIVE Ascending(_)
Ascending(S) ==
    IF S = {} THEN <<>>
    ELSE LET lo == CHOOSE x \in S : \A y \in S : x <= y
         IN  <<lo>> \o Ascending(S \ {lo})

\* a loop that the first failing closeSession ends
RECURSIVE closeAllLoopStopAtFailure(_, _, _)
closeAllLoopStopAtFailure(st, ids, failing) ==
    IF ids = <<>> THEN st
    ELSE IF Head(ids) \in failing THEN st
    ELSE closeAllLoopStopAtFailure(closeSession(st, Head(ids), Null), Tail(ids), failing)

\* closeAll: for (const [id] of this.sessions) try { closeSession(id) } catch {};
\* failing: the sessions whose terminal.kill throws
RECURSIVE closeAllLoop(_, _, _)
closeAllLoop(st, ids, failing) ==
    IF ids = <<>> THEN st
    ELSE IF Head(ids) \in failing THEN closeAllLoop(st, Tail(ids), failing)
    ELSE closeAllLoop(closeSession(st, Head(ids), Null), Tail(ids), failing)

\* closeAll()
CloseAll(failing) ==
    LET st == closeAllLoop(Manager, Ascending(DOMAIN sessions), failing)
    IN  /\ terminals' = st.terminals
        /\ sessions' = st.sessions
        /\ idleTimers' = st.idleTimers
        /\ last' = [Done("closeAll", 0, <<>>, "ok") EXCEPT !.failing = failing]
        /\ UNCHANGED <<config, creating, waits>>

\* closeSession(id, signal), as handleCloseSession calls it: the handler
\* appends its audit record before the call
CloseSessionSignal(id, signal) ==
    IF id \notin DOMAIN sessions
    THEN /\ last' = Audited(Done("closeSession", id, <<signal>>, "not_found"),
                             <<"session_close">>)
         /\ UNCHANGED <<config, sessions, terminals, creating, waits, idleTimers>>
    ELSE /\ DoClose(id, signal)
         /\ last' = Audited(Done("closeSession", id, <<signal>>, "closed"),
                             <<"session_close">>)
         /\ UNCHANGED <<config, creating, waits>>

\* closeSession(id)
CloseSession(id) == CloseSessionSignal(id, Null)

\* listSessions(): the ids listed
listSessions(sess) == DOMAIN sess

\* the callback that resetIdleTimer arms
IdleFire(id) ==
    /\ id \in DOMAIN idleTimers
    /\ \E k \in 1..Len(idleTimers[id]) :
         /\ idleTimers[id][k] = 0
         /\ IF id \in DOMAIN sessions
            THEN LET held == k = Len(idleTimers[id])
                     fired == IF held THEN idleTimers
                              ELSE WithoutTimer(idleTimers, id, k)
                     st == closeSession([Manager EXCEPT !.idleTimers = fired], id, Null)
                 IN  /\ terminals' = st.terminals
                     /\ sessions' = st.sessions
                     /\ idleTimers' = st.idleTimers
                     /\ last' = Done("idle_timeout", id, <<>>, "closed")
            ELSE /\ idleTimers' = WithoutTimer(idleTimers, id, k)
                 /\ last' = Done("idle_timeout", id, <<>>, "none")
                 /\ UNCHANGED <<sessions, terminals>>
    /\ UNCHANGED <<config, creating, waits>>

(***************************************************************************)
(* The child process.                                                      *)
(***************************************************************************)
ProcessExit(pid) ==
    /\ pid \in DOMAIN terminals
    /\ terminals[pid].running
    /\ terminals' = [terminals EXCEPT ![pid] = termExit(@)]
    /\ last' = NoOp
    /\ UNCHANGED <<config, sessions, creating, waits, idleTimers>>

ChildOutput(pid, chunk) ==
    /\ pid \in DOMAIN terminals
    /\ TotalBuffered < MaxChunks
    /\ terminals' = [terminals EXCEPT ![pid] = termData(@, chunk)]
    /\ last' = NoOp
    /\ UNCHANGED <<config, sessions, creating, waits, idleTimers>>

(***************************************************************************)
(* The command pipeline (send-command.ts, confirm-dangerous-command.ts).   *)
(***************************************************************************)
\* the allowed-roots lists of the configurations explored
RootLists == {<<>>, <<S_tmp>>}

\* detectDanger, findDisallowedPath and trim over the submitted inputs, computed once
DangerOf == [x \in Inputs |-> detectDanger(x)]
DisallowedIn == [ap \in RootLists |-> [x \in Inputs |-> findDisallowedPath(ap, x)]]
TrimOf == [x \in Inputs |-> Trim(x)]

\* a danger gate that lets every input pass
dangerGateOpen(cfg, pending, input) == "pass"

\* handleSendCommand, the danger check: "block", "consume" (pre-confirmed) or "pass"
dangerGate(cfg, pending, input) ==
    IF cfg.dangerDetection /\ DangerOf[input] # Null
    THEN IF TrimOf[input] \in pending THEN "consume" ELSE "block"
    ELSE "pass"

\* handleSendCommand, the path check: the disallowed path, or null
pathGate(cfg, input) ==
    IF Len(cfg.allowedPaths) > 0 THEN DisallowedIn[cfg.allowedPaths][input]
    ELSE Null

\* a re-validation that rejects nothing
confirmGateOpen(cfg, input) == "pass"

\* handleConfirmDangerousCommand, the re-validation of the input
confirmGate(cfg, input) ==
    IF DangerOf[input] = Null /\ cfg.dangerDetection THEN "not_dangerous" ELSE "pass"

(***************************************************************************)
(* waitForOutput (terminal.ts, waitForSettled).                            *)
(***************************************************************************)
\* getOutputMarker(): outputBuffer in pty mode, String(outputGeneration) in pipe mode
outputMarker(t) == IF t.mode = "pty" THEN t.buf ELSE <<Len(t.emitted)>>

\* waitForSettled(...) up to the first setTimeout(check, 50); op, sid and
\* input identify the caller that awaits the result; startChunks is the
\* number of chunks the terminal had received when the wait began
NewWait(t, pid, op, sid, input, timeoutMs) ==
    [pid |-> pid, op |-> op, sid |-> sid, input |-> input, timeoutMs |-> timeoutMs,
     elapsed |-> 0, due |-> POLL_MS, settled |-> FALSE, startMarker |-> outputMarker(t),
     startChunks |-> Len(t.emitted)]

\* a check that takes the grace delay at every settled poll without a prompt
waitCheckGraceAgain(t, w) ==
    IF ~t.isAlive
    THEN [resolve |-> TRUE, isComplete |-> TRUE, delay |-> 0, settled |-> w.settled]
    ELSE IF w.elapsed >= w.timeoutMs
    THEN [resolve |-> TRUE, isComplete |-> FALSE, delay |-> 0, settled |-> w.settled]
    ELSE IF t.quiet >= OUTPUT_SETTLE_MS /\ outputMarker(t) # w.startMarker
    THEN IF endsWithPrompt(readScreen(t, FALSE), t.promptPattern)
         THEN [resolve |-> TRUE, isComplete |-> TRUE, delay |-> 0, settled |-> w.settled]
         ELSE [resolve |-> FALSE, isComplete |-> FALSE, delay |-> OUTPUT_SETTLE_MS,
               settled |-> TRUE]
    ELSE [resolve |-> FALSE, isComplete |-> FALSE, delay |-> POLL_MS, settled |-> w.settled]

\* a check that does not compare the output marker with the one at the start
waitCheckNoMarker(t, w) ==
    IF ~t.isAlive
    THEN [resolve |-> TRUE, isComplete |-> TRUE, delay |-> 0, settled |-> w.settled]
    ELSE IF w.elapsed >= w.timeoutMs
    THEN [resolve |-> TRUE, isComplete |-> FALSE, delay |-> 0, settled |-> w.settled]
    ELSE IF t.quiet >= OUTPUT_SETTLE_MS
    THEN IF endsWithPrompt(readScreen(t, FALSE), t.promptPattern)
         THEN [resolve |-> TRUE, isComplete |-> TRUE, delay |-> 0, settled |-> w.settled]
         ELSE IF ~w.settled
         THEN [resolve |-> FALSE, isComplete |-> FALSE, delay |-> OUTPUT_SETTLE_MS,
               settled |-> TRUE]
         ELSE [resolve |-> TRUE, isComplete |-> TRUE, delay |-> 0, settled |-> w.settled]
    ELSE [resolve |-> FALSE, isComplete |-> FALSE, delay |-> POLL_MS, settled |-> w.settled]

\* a check that does not test the deadline
waitCheckNoDeadline(t, w) ==
    IF ~t.isAlive
    THEN [resolve |-> TRUE, isComplete |-> TRUE, delay |-> 0, settled |-> w.settled]
    ELSE IF t.quiet >= OUTPUT_SETTLE_MS /\ outputMarker(t) # w.startMarker
    THEN IF endsWithPrompt(readScreen(t, FALSE), t.promptPattern)
         THEN [resolve |-> TRUE, isComplete |-> TRUE, delay |-> 0, settled |-> w.settled]
         ELSE IF ~w.settled
         THEN [resolve |-> FALSE, isComplete |-> FALSE, delay |-> OUTPUT_SETTLE_MS,
               settled |-> TRUE]
         ELSE [resolve |-> TRUE, isComplete |-> TRUE, delay |-> 0, settled |-> w.settled]
    ELSE [resolve |-> FALSE, isComplete |-> FALSE, delay |-> POLL_MS, settled |-> w.settled]

\* a check that tests the deadline before the liveness
waitCheckTimeoutFirst(t, w) ==
    IF w.elapsed >= w.timeoutMs
    THEN [resolve |-> TRUE, isComplete |-> FALSE, delay |-> 0, settled |-> w.settled]
    ELSE IF ~t.isAlive
    THEN [resolve |-> TRUE, isComplete |-> TRUE, delay |-> 0, settled |-> w.settled]
    ELSE IF t.quiet >= OUTPUT_SETTLE_MS /\ outputMarker(t) # w.startMarker
    THEN IF endsWithPrompt(readScreen(t, FALSE), t.promptPattern)
         THEN [resolve |-> TRUE, isComplete |-> TRUE, delay |-> 0, settled |-> w.settled]
         ELSE IF ~w.settled
         THEN [resolve |-> FALSE, isComplete |-> FALSE, delay |-> OUTPUT_SETTLE_MS,
               settled |-> TRUE]
         ELSE [resolve |-> TRUE, isComplete |-> TRUE, delay |-> 0, settled |-> w.settled]
    ELSE [resolve |-> FALSE, isComplete |-> FALSE, delay |-> POLL_MS, settled |-> w.settled]

\* a check that does not look at the liveness of the terminal
waitCheckIgnoreAlive(t, w) ==
    IF w.elapsed >= w.timeoutMs
    THEN [resolve |-> TRUE, isComplete |-> FALSE, delay |-> 0, settled |-> w.settled]
    ELSE [resolve |-> FALSE, isComplete |-> FALSE, delay |-> POLL_MS, settled |-> w.settled]

\* check(): the promise is resolved with isComplete, or check is scheduled
\* again after delay
waitCheck(t, w) ==
    IF ~t.isAlive
    THEN [resolve |-> TRUE, isComplete |-> TRUE, delay |-> 0, settled |-> w.settled]
    ELSE IF w.elapsed >= w.timeoutMs
    THEN [resolve |-> TRUE, isComplete |-> FALSE, delay |-> 0, settled |-> w.settled]
    ELSE IF t.quiet >= OUTPUT_SETTLE_MS /\ outputMarker(t) # w.startMarker
    THEN IF endsWithPrompt(readScreen(t, FALSE), t.promptPattern)
         THEN [resolve |-> TRUE, isComplete |-> TRUE, delay |-> 0, settled |-> w.settled]
         ELSE IF ~w.settled
         THEN [resolve |-> FALSE, isComplete |-> FALSE, delay |-> OUTPUT_SETTLE_MS,
               settled |-> TRUE]
         ELSE [resolve |-> TRUE, isComplete |-> TRUE, delay |-> 0, settled |-> w.settled]
    ELSE [resolve |-> FALSE, isComplete |-> FALSE, delay |-> POLL_MS, settled |-> w.settled]

\* a response whose warning is never set
handlerResponseNoWarning(isComplete, t) ==
    [is_complete |-> isComplete, is_alive |-> t.isAlive, warning |-> FALSE]

\* handleSendCommand / handleConfirmDangerousCommand after the wait:
\* is_complete, is_alive, and the warning if (!isComplete)
handlerResponse(isComplete, t) ==
    [is_complete |-> isComplete, is_alive |-> t.isAlive, warning |-> ~isComplete]

\* what the handler that awaited the wait returns, with the time the wait took
waitResponse(w, isComplete, t) ==
    LET r == handlerResponse(isComplete, t)
    IN  [is_complete |-> r.is_complete, is_alive |-> r.is_alive, warning |-> r.warning,
         elapsed |-> w.elapsed, timeoutMs |-> w.timeoutMs, pid |-> w.pid]

\* one scheduled run of check(); a resolved wait resumes its caller, which
\* returns its response
Poll(k) ==
    /\ k \in 1..Len(waits)
    /\ waits[k].due = 0
    /\ LET w == waits[k]
           t == terminals[w.pid]
           c == waitCheck(t, w)
       IN  IF c.resolve
           THEN /\ waits' = RemoveAt(waits, k)
                /\ last' = DoneWait(w.op, w.sid, w.input, waitResponse(w, c.isComplete, t))
           ELSE /\ waits' = [waits EXCEPT ![k].due = c.delay, ![k].settled = c.settled]
                /\ last' = DoneWait("poll", w.sid, w.input, waitResponse(w, FALSE, t))
    /\ UNCHANGED <<config, sessions, terminals, creating, idleTimers>>

Min(a, b) == IF a < b THEN a ELSE b
Max(a, b) == IF a > b THEN a ELSE b

\* POLL_MS of time pass; a timer that is due runs before more time passes
Tick ==
    /\ \A k \in 1..Len(waits) : waits[k].due > 0
    /\ \A id \in DOMAIN idleTimers : \A k \in 1..Len(idleTimers[id]) : idleTimers[id][k] > 0
    /\ waits' = [k \in 1..Len(waits) |->
                    [waits[k] EXCEPT !.elapsed = @ + POLL_MS, !.due = Max(0, @ - POLL_MS)]]
    /\ idleTimers' = [id \in DOMAIN idleTimers |->
                        [k \in 1..Len(idleTimers[id]) |-> Max(0, idleTimers[id][k] - POLL_MS)]]
    /\ terminals' = [p \in DOMAIN terminals |->
                        [terminals[p] EXCEPT !.quiet = Min(@ + POLL_MS, OUTPUT_SETTLE_MS)]]
    /\ sessions' = [id \in DOMAIN sessions |->
                        [sessions[id] EXCEPT !.idleFor =
                            IF config.idleTimeout > 0 THEN Min(@ + POLL_MS, MaxIdleMs) ELSE @]]
    /\ last' = NoOp
    /\ UNCHANGED <<config, creating>>

(***************************************************************************)
(* The handlers.                                                           *)
(***************************************************************************)
\* handleSendCommand with timeout_ms, from the call to the suspension in
\* waitForOutput; Poll resumes it
SendCommandT(id, input, timeoutMs) ==
    IF id \notin DOMAIN sessions
    THEN /\ last' = Done("send_command", id, input, "not_found")
         /\ UNCHANGED <<config, sessions, terminals, creating, waits, idleTimers>>
    ELSE LET s == sessions[id]
             t == terminals[s.pid]
             synced == getSession(sessions, terminals, id)[id]
             gate == dangerGate(config, s.pending, input)
             passed == IF gate = "consume"
                       THEN [synced EXCEPT !.pending = @ \ {TrimOf[input]}]
                       ELSE synced
             w == termWrite(t, Append(input, "\n"))
         IN  IF ~synced.isAlive
             THEN /\ sessions' = [sessions EXCEPT ![id] = synced]
                  /\ last' = Done("send_command", id, input, "not_alive")
                  /\ UNCHANGED <<config, terminals, creating, waits, idleTimers>>
             ELSE IF gate = "block"
             THEN /\ sessions' = [sessions EXCEPT ![id] = synced]
                  /\ last' = Audited(Done("send_command", id, input, "dangerous"),
                                      <<"command_blocked_danger">>)
                  /\ UNCHANGED <<config, terminals, creating, waits, idleTimers>>
             ELSE IF pathGate(config, input) # Null
             THEN /\ sessions' = [sessions EXCEPT ![id] = passed]
                  /\ last' = Audited(Done("send_command", id, input, "path"),
                                      <<"command_blocked_path">>)
                  /\ UNCHANGED <<config, terminals, creating, waits, idleTimers>>
             ELSE /\ TotalWrites < MaxWrites
                  /\ sessions' = touchedSessions([sessions EXCEPT ![id] = passed], id)
                  /\ idleTimers' = touchedTimers(config, sessions, idleTimers, id)
                  /\ terminals' = [terminals EXCEPT ![s.pid] = w.t]
                  /\ waits' = IF w.ok
                              THEN Append(waits, NewWait(w.t, s.pid, "send_command_return",
                                                         id, input, timeoutMs))
                              ELSE waits
                  /\ last' = Audited(Done("send_command", id, input,
                                           IF w.ok THEN "written" ELSE "not_alive"),
                                      <<"command">>)
                  /\ UNCHANGED <<config, creating>>

\* handleSendCommand with the default timeout_ms
SendCommand(id, input) == SendCommandT(id, input, DEFAULT_TIMEOUT_MS)

\* CONTROL_KEYS, for the keys submitted
CONTROL_KEYS ==
    [k \in {"enter", "ctrl+c", "ctrl+\\", "ctrl+z"} |->
        CASE k = "enter" -> <<"\r">>
          [] k = "ctrl+c" -> <<"ETX">>
          [] k = "ctrl+\\" -> <<"FS">>
          [] k = "ctrl+z" -> <<"SUB">>]

\* signalMap of handleSendControl
signalMap ==
    [k \in {"ctrl+c", "ctrl+\\", "ctrl+z"} |->
        CASE k = "ctrl+c" -> "SIGINT"
          [] k = "ctrl+\\" -> "SIGQUIT"
          [] k = "ctrl+z" -> "SIGTSTP"]

\* The process table as pgrep sees it: the session's own process is 0, the
\* other processes are Procs, and parent[i] is the parent of i, with
\* NoParent for a process that descends from no process of the table.
Procs == 1..MaxProcs
NoParent == 0 - 1
ProcessTables ==
    { parent \in [Procs -> {NoParent, 0} \cup Procs] :
        \A S \in SUBSET Procs \ {{}} : \E i \in S : parent[i] \notin S }
\* a table in which the session's process has no descendants
NoProcs == [i \in Procs |-> NoParent]

\* array.reverse()
Reverse(s) == [i \in 1..Len(s) |-> s[Len(s) + 1 - i]]

\* pgrep -P pid: the children of pid, in ascending order
pgrepChildren(parent, pid) == Ascending({i \in Procs : parent[i] = pid})

\* a listing that stops at the children
getChildPids(parent, pid) == pgrepChildren(parent, pid)

\* getDescendantPids(pid): the children, then the descendants of each child
RECURSIVE getDescendantPids(_, _)
RECURSIVE descendantsOfEach(_, _)
descendantsOfEach(parent, children) ==
    IF children = <<>> THEN <<>>
    ELSE getDescendantPids(parent, Head(children))
            \o descendantsOfEach(parent, Tail(children))
getDescendantPids(parent, pid) ==
    pgrepChildren(parent, pid) \o descendantsOfEach(parent, pgrepChildren(parent, pid))

\* the signalling loop of handleSendControl in pipe mode: process.kill on the
\* reversed list and then on the session's own process; exited are the
\* processes that are gone when their turn comes, whose process.kill throws
signalTree(control, parent, exited) ==
    LET order == Reverse(getDescendantPids(parent, 0)) \o <<0>>
    IN  [signal |-> signalMap[control], parent |-> parent, exited |-> exited,
         delivered |-> SelectSeq(order, LAMBDA p : p \notin exited)]

\* handleSendControl, from the call to the CONTROL_WAIT_MS pause, after which it
\* reads the screen and returns; parent and exited are the process table
\* and the processes that exit during the call
SendControlWith(id, control, parent, exited) ==
    IF id \notin DOMAIN sessions
    THEN /\ last' = Done("send_control", id, <<control>>, "not_found")
         /\ UNCHANGED <<config, sessions, terminals, creating, waits, idleTimers>>
    ELSE LET s == sessions[id]
             t == terminals[s.pid]
             synced == [sessions EXCEPT ![id].isAlive = t.isAlive]
             w == termWrite(t, CONTROL_KEYS[control])
         IN  IF ~t.isAlive
             THEN /\ sessions' = synced
                  /\ last' = Done("send_control", id, <<control>>, "not_alive")
                  /\ UNCHANGED <<config, terminals, creating, waits, idleTimers>>
             ELSE IF control \notin DOMAIN CONTROL_KEYS
             THEN /\ sessions' = synced
                  /\ last' = Done("send_control", id, <<control>>, "unknown_key")
                  /\ UNCHANGED <<config, terminals, creating, waits, idleTimers>>
             ELSE IF t.mode = "pipe" /\ control \in DOMAIN signalMap
             THEN /\ sessions' = touchedSessions(synced, id)
                  /\ idleTimers' = touchedTimers(config, sessions, idleTimers, id)
                  /\ last' = [Audited(Done("send_control", id, <<control>>, "signalled"),
                                       <<"control">>)
                                 EXCEPT !.resp = signalTree(control, parent, exited)]
                  /\ UNCHANGED <<config, terminals, creating, waits>>
             ELSE /\ TotalWrites < MaxWrites
                  /\ sessions' = touchedSessions(synced, id)
                  /\ idleTimers' = touchedTimers(config, sessions, idleTimers, id)
                  /\ terminals' = [terminals EXCEPT ![s.pid] = w.t]
                  /\ last' = Audited(Done("send_control", id, <<control>>, "written"),
                                      <<"control">>)
                  /\ UNCHANGED <<config, creating, waits>>

\* handleSendControl on a session whose process has no descendants
SendControl(id, control) == SendControlWith(id, control, NoProcs, {})

\* handleConfirmDangerousCommand, from the call to the suspension in waitForOutput
ConfirmDangerousCommand(id, input) ==
    IF id \notin DOMAIN sessions
    THEN /\ last' = Done("confirm_dangerous_command", id, input, "not_found")
         /\ UNCHANGED <<config, sessions, terminals, creating, waits, idleTimers>>
    ELSE LET s == sessions[id]
             t == terminals[s.pid]
             synced == [s EXCEPT !.isAlive = t.isAlive]
             w == termWrite(t, Append(input, "\n"))
         IN  IF ~synced.isAlive
             THEN /\ sessions' = [sessions EXCEPT ![id] = synced]
                  /\ last' = Done("confirm_dangerous_command", id, input, "not_alive")
                  /\ UNCHANGED <<config, terminals, creating, waits, idleTimers>>
             ELSE IF confirmGate(config, input) # "pass"
             THEN /\ sessions' = [sessions EXCEPT ![id] = synced]
                  /\ last' = Done("confirm_dangerous_command", id, input, "not_dangerous")
                  /\ UNCHANGED <<config, terminals, creating, waits, idleTimers>>
             ELSE /\ TotalWrites < MaxWrites
                  /\ sessions' = touchedSessions([sessions EXCEPT ![id] = synced], id)
                  /\ idleTimers' = touchedTimers(config, sessions, idleTimers, id)
                  /\ terminals' = [terminals EXCEPT ![s.pid] = w.t]
                  /\ waits' = IF w.ok
                              THEN Append(waits, NewWait(w.t, s.pid,
                                                         "confirm_dangerous_command_return",
                                                         id, input, config.defaultTimeout * 2))
                              ELSE waits
                  /\ last' = Audited(Done("confirm_dangerous_command", id, input,
                                           IF w.ok THEN "written" ELSE "not_alive"),
                                      <<"command_confirmed_danger">>)
                  /\ UNCHANGED <<config, creating>>

(***************************************************************************)
(* Spec: the session manager's lifecycle, with overlapping createSession   *)
(* calls, and no command or path policy configured.                        *)
(***************************************************************************)
SpawnOutcomes == {"pty", "pipe", "fail"}

NoPolicy ==
    [dangerDetection |-> TRUE, allowedPaths |-> <<>>,
     allowedCommands |-> <<>>, blockedCommands |-> <<>>,
     idleTimeout |-> 0, defaultTimeout |-> DEFAULT_TIMEOUT_MS,
       redactSecrets |-> FALSE, maxOutput |-> DEFAULT_MAX_OUTPUT]

Init ==
    /\ config = NoPolicy
    /\ sessions = <<>>
    /\ terminals = <<>>
    /\ creating = {}
    /\ waits = <<>>
    /\ idleTimers = <<>>
    /\ last = NoOp

Next ==
    \/ \E o \in SpawnOutcomes : CreateBegin(C_bash, S_tmp, o)
    \/ \E p \in Pids, i \in Ids : CreateFinish(p, i)
    \/ \E i \in Ids : CheckAlive(i)
    \/ \E i \in Ids : CloseSession(i)
    \/ \E p \in Pids : ProcessExit(p)

Spec == Init /\ [][Next]_vars

(***************************************************************************)
(* SpecCmd: the command pipeline on one registered session, under every    *)
(* combination of danger detection and path policy.                        *)
(***************************************************************************)
CmdConfigs ==
    { [dangerDetection |-> d, allowedPaths |-> ap,
       allowedCommands |-> <<>>, blockedCommands |-> <<>>,
       idleTimeout |-> 0, defaultTimeout |-> DEFAULT_TIMEOUT_MS,
       redactSecrets |-> FALSE, maxOutput |-> DEFAULT_MAX_OUTPUT] :
        d \in BOOLEAN, ap \in RootLists }

\* the state after one createSession has returned
InitCmd ==
    /\ config \in CmdConfigs
    /\ \E m \in {"pty", "pipe"} : terminals = <<NewTerminal(m)>>
    /\ sessions = <<NewSession(1)>>
    /\ creating = {}
    /\ waits = <<>>
    /\ idleTimers = <<>>
    /\ last = NoOp

\* the id of the registered session and an id that is not registered
CmdIds == {1, 2}

NextCmd ==
    \/ \E i \in CmdIds, x \in Inputs : SendCommand(i, x)
    \/ \E i \in CmdIds, x \in Inputs : ConfirmDangerousCommand(i, x)
    \/ \E p \in Pids : ProcessExit(p)
    \/ \E i \in CmdIds : CheckAlive(i)
    \/ \E i \in CmdIds : CloseSession(i)

SpecCmd == InitCmd /\ [][NextCmd]_vars

(***************************************************************************)
(* SpecCreate: createSession under command and path policies.              *)
(***************************************************************************)
CreateCwds == {S_tmp, S_tmp_x, S_tmpfoo, S_root, S_etc}

CreateConfigs ==
    { [dangerDetection |-> TRUE, allowedPaths |-> ap,
       allowedCommands |-> ac, blockedCommands |-> bc,
       idleTimeout |-> 0, defaultTimeout |-> DEFAULT_TIMEOUT_MS,
       redactSecrets |-> FALSE, maxOutput |-> DEFAULT_MAX_OUTPUT] :
        ap \in RootLists,
        ac \in {<<>>, <<C_bash>>, <<C_nc, C_bash>>},
        bc \in {<<>>, <<C_nc>>} }

InitCreate ==
    /\ config \in CreateConfigs
    /\ sessions = <<>>
    /\ terminals = <<>>
    /\ creating = {}
    /\ waits = <<>>
    /\ idleTimers = <<>>
    /\ last = NoOp

NextCreate ==
    \/ \E c \in Commands, d \in CreateCwds, o \in {"pipe", "fail"} : CreateBegin(c, d, o)
    \/ \E p \in Pids, i \in Ids : CreateFinish(p, i)

SpecCreate == InitCreate /\ [][NextCreate]_vars

(***************************************************************************)
(* SpecPath: isPathAllowed as a function of the allowed roots and a path.  *)
(***************************************************************************)
PathRootLists ==
    { <<>>, <<S_tmp>>, <<S_tmp_x>>, <<S_etc>>, <<S_root>>, <<S_tmp, S_etc>>,
      <<S_tmp_slash>>, <<S_usr_local>> }
PathArgs ==
    { S_tmp, S_tmp_x, S_tmpfoo, S_etc, S_root, S_usr_local, S_tmp_dotdot_etc,
      S_tmp_slash, S_tmp_x_dot, S_usr, S_etc_h, S_tmp_x_y }

InitPath ==
    /\ config \in { [dangerDetection |-> TRUE, allowedPaths |-> ap,
                     allowedCommands |-> <<>>, blockedCommands |-> <<>>,
                     idleTimeout |-> 0, defaultTimeout |-> DEFAULT_TIMEOUT_MS,
       redactSecrets |-> FALSE, maxOutput |-> DEFAULT_MAX_OUTPUT] :
                       ap \in PathRootLists }
    /\ sessions = <<>>
    /\ terminals = <<>>
    /\ creating = {}
    /\ waits = <<>>
    /\ idleTimers = <<>>
    /\ last = NoOp

IsPathAllowedCall(p) ==
    /\ last' = Done("isPathAllowed", 0, p,
                    IF isPathAllowed(config.allowedPaths, p) THEN "true" ELSE "false")
    /\ UNCHANGED <<config, sessions, terminals, creating, waits, idleTimers>>

NextPath == \E p \in PathArgs : IsPathAllowedCall(p)

SpecPath == InitPath /\ [][NextPath]_vars

(***************************************************************************)
(* SpecTerm: one pty-backed and one pipe-backed terminal driven directly   *)
(* through the TerminalWrapper interface.                                  *)
(***************************************************************************)
TermData == {Append(I_ls_tmp, "\n"), Append(I_cat_etc, "\n")}

InitTerm ==
    /\ config = NoPolicy
    /\ sessions = <<>>
    /\ terminals = <<NewTerminal("pty"), NewTerminal("pipe")>>
    /\ creating = {}
    /\ waits = <<>>
    /\ idleTimers = <<>>
    /\ last = NoOp

\* terminal.write(data)
TermWriteCall(pid, data) ==
    LET w == termWrite(terminals[pid], data)
    IN  /\ pid \in DOMAIN terminals
        /\ w.ok => TotalWrites < MaxWrites
        /\ terminals' = [terminals EXCEPT ![pid] = w.t]
        /\ last' = Done("write", pid, data, IF w.ok THEN "written" ELSE "not_alive")
        /\ UNCHANGED <<config, sessions, creating, waits, idleTimers>>

\* terminal.kill()
TermKillCall(pid) ==
    /\ pid \in DOMAIN terminals
    /\ terminals' = [terminals EXCEPT ![pid] = termKill(@)]
    /\ last' = Done("kill", pid, <<>>, "ok")
    /\ UNCHANGED <<config, sessions, creating, waits, idleTimers>>

\* terminal.dispose()
TermDisposeCall(pid) ==
    /\ pid \in DOMAIN terminals
    /\ terminals' = [terminals EXCEPT ![pid] = termDispose(@)]
    /\ last' = Done("dispose", pid, <<>>, "ok")
    /\ UNCHANGED <<config, sessions, creating, waits, idleTimers>>

\* proc.on("error") of a pipe-backed terminal
ProcessError(pid) ==
    /\ pid \in DOMAIN terminals
    /\ terminals[pid].mode = "pipe"
    /\ terminals[pid].isAlive
    /\ terminals' = [terminals EXCEPT ![pid] = termExit(@)]
    /\ last' = NoOp
    /\ UNCHANGED <<config, sessions, creating, waits, idleTimers>>

NextTerm ==
    \/ \E p \in Pids, d \in TermData : TermWriteCall(p, d)
    \/ \E p \in Pids : TermKillCall(p)
    \/ \E p \in Pids : TermDisposeCall(p)
    \/ \E p \in Pids : ProcessExit(p)
    \/ \E p \in Pids : ProcessError(p)
    \/ \E p \in Pids, c \in Chunks : ChildOutput(p, c)

SpecTerm == InitTerm /\ [][NextTerm]_vars

(***************************************************************************)
(* SpecScreen: one terminal, pty- or pipe-backed, written to and read      *)
(* while its child prints the markers of two commands and a long listing.  *)
(***************************************************************************)
ScreenChunks == {"A", "B", "bulk"}

InitScreen ==
    /\ config = NoPolicy
    /\ sessions = <<>>
    /\ \E m \in {"pty", "pipe"} : terminals = <<NewTerminal(m)>>
    /\ creating = {}
    /\ waits = <<>>
    /\ idleTimers = <<>>
    /\ last = NoOp

\* terminal.readScreen(fullScreen)
ReadScreenCall(pid, fullScreen) ==
    /\ pid \in DOMAIN terminals
    /\ last' = DoneRead(pid, fullScreen, readScreen(terminals[pid], fullScreen))
    /\ UNCHANGED <<config, sessions, terminals, creating, waits, idleTimers>>

NextScreen ==
    \/ TermWriteCall(1, Append(I_ls_tmp, "\n"))
    \/ \E c \in ScreenChunks : ChildOutput(1, c)
    \/ \E f \in BOOLEAN : ReadScreenCall(1, f)

SpecScreen == InitScreen /\ [][NextScreen]_vars

(***************************************************************************)
(* SpecWait: send_command with its wait for output on one registered       *)
(* session, against a child that prints, pauses, stays silent or exits,    *)
(* while time passes; the client awaits each response before its next call.*)
(***************************************************************************)
\* timeout_ms of the calls: one that is not a multiple of the polling period
\* and one longer than OUTPUT_SETTLE_MS
WaitTimeouts == {120, 400}
WaitChunks == {"out", "$ "}

\* a terminal whose child printed its prompt during the startup grace period
PromptedTerminal(m) ==
    LET t == termData(NewTerminal(m), "$ ")
    IN  [t EXCEPT !.promptPattern = detectPromptPattern(readScreen(t, FALSE))]

InitWait ==
    /\ config = NoPolicy
    /\ \E m \in {"pty", "pipe"} :
          terminals \in { <<NewTerminal(m)>>, <<PromptedTerminal(m)>> }
    /\ sessions = <<NewSession(1)>>
    /\ creating = {}
    /\ waits = <<>>
    /\ idleTimers = <<>>
    /\ last = NoOp

NextWait ==
    \/ \E ms \in WaitTimeouts : waits = <<>> /\ SendCommandT(1, I_ls_tmp, ms)
    \/ Poll(1)
    \/ Tick
    \/ \E c \in WaitChunks : ChildOutput(1, c)
    \/ ProcessExit(1)

SpecWait == InitWait /\ [][NextWait]_vars

(***************************************************************************)
(* SpecIdle: one registered session with its idle timer, touched, closed   *)
(* with a signal, or left idle while time passes.                          *)
(***************************************************************************)
\* config.idleTimeout in periods of POLL_MS: disabled, 200 ms, and 30 days
IdleTimeouts == {0, 4, 51840000}
CloseSignals == {Null, "SIGTERM", "SIGCONT"}
ControlKeys == {"enter", "ctrl+c", "ctrl+?"}

\* the state after one createSession has returned
InitIdle ==
    /\ config \in { [NoPolicy EXCEPT !.idleTimeout = T] : T \in IdleTimeouts }
    /\ \E m \in {"pty", "pipe"} : terminals = <<NewTerminal(m)>>
    /\ sessions = <<NewSession(1)>>
    /\ creating = {}
    /\ waits = <<>>
    /\ idleTimers = armIdleTimer(config, <<>>, 1)
    /\ last = NoOp

NextIdle ==
    \/ \E k \in ControlKeys : SendControl(1, k)
    \/ \E s \in CloseSignals : CloseSessionSignal(1, s)
    \/ IdleFire(1)
    \/ Tick
    \/ ProcessExit(1)
    \/ CheckAlive(1)
    \/ GetSessionCall(1)

SpecIdle == InitIdle /\ [][NextIdle]_vars

(***************************************************************************)
(* SpecCloseAll: sessions are created, their processes exit, and closeAll  *)
(* runs while closing some of them fails.                                  *)
(***************************************************************************)
InitCloseAll ==
    /\ config \in { [NoPolicy EXCEPT !.idleTimeout = T] : T \in {0, 4} }
    /\ sessions = <<>>
    /\ terminals = <<>>
    /\ creating = {}
    /\ waits = <<>>
    /\ idleTimers = <<>>
    /\ last = NoOp

NextCloseAll ==
    \/ \E o \in {"pty", "pipe"} : CreateBegin(C_bash, S_tmp, o)
    \/ \E p \in Pids, i \in Ids : CreateFinish(p, i)
    \/ \E F \in SUBSET Ids : CloseAll(F)
    \/ \E p \in Pids : ProcessExit(p)

SpecCloseAll == InitCloseAll /\ [][NextCloseAll]_vars

(***************************************************************************)
(* The output sanitizer (utils/sanitizer.ts) and the tail of the four      *)
(* handlers that return terminal text.                                     *)
(***************************************************************************)
\* line.trimEnd()
trimEnd(line) ==
    LET keep == {i \in 1..Len(line) : line[i] \notin SpaceCh}
    IN  IF keep = {} THEN <<>> ELSE SubSeq(line, 1, SetMax(keep))

\* lines.join("\n")
RECURSIVE JoinLines(_)
JoinLines(lines) ==
    IF lines = <<>> THEN <<>>
    ELSE IF Len(lines) = 1 THEN lines[1]
    ELSE lines[1] \o <<"\n">> \o JoinLines(Tail(lines))

\* stripAnsi(text)
stripAnsi(text) ==
    LET csi == RCat(<<RSet({"ESC"}), RSet({"["}), RStar(RSet(Digit \cup {";"})), RSet(Alpha)>>)
        osc == RCat(<<RSet({"ESC"}), RSet({"]"}), RStar(RNot({"BEL"})), RSet({"BEL"})>>)
        charset == RLit(<<"ESC", "(", "B">>)
        lone == RSet({"ESC"})
    IN  ReplaceAll(lone, ReplaceAll(charset, ReplaceAll(osc, ReplaceAll(csi, text, <<>>), <<>>), <<>>), <<>>)

\* cleanWhitespace(text): a blank line is kept when it is the first of its run
cleanWhitespace(text) ==
    LET raw == Split(text, "\n")
        lines == [k \in 1..Len(raw) |-> trimEnd(raw[k])]
        kept == {k \in 1..Len(lines) : lines[k] # <<>> \/ k = 1 \/ lines[k - 1] # <<>>}
        nth(j) == CHOOSE k \in kept : Cardinality({i \in kept : i < k}) = j - 1
    IN  JoinLines([j \in 1..Cardinality(kept) |-> lines[nth(j)]])

\* stripCommandEcho(output, command)
stripCommandEcho(output, command) ==
    LET lines == Split(output, "\n")
        trimmedCmd == Trim(command)
    IN  IF Trim(lines[1]) = trimmedCmd THEN JoinLines(Tail(lines))
        ELSE IF IsSuffix(trimmedCmd, trimEnd(lines[1])) THEN JoinLines(Tail(lines))
        ELSE output

\* String(n) for n >= 0
RECURSIVE Decimal(_)
Decimal(n) ==
    LET d == <<"0", "1", "2", "3", "4", "5", "6", "7", "8", "9">>[(n % 10) + 1]
    IN  IF n < 10 THEN <<d>> ELSE Append(Decimal(n \div 10), d)

\* "\n\n... [output truncated at " + breakPoint + " chars]"
Notice(breakPoint) == NOTICE_HEAD \o Decimal(breakPoint) \o NOTICE_TAIL

\* truncateOutput with the cut dropped
truncateOutputNoCut(output, maxChars) == output

\* truncateOutput(output, maxChars); lastNewline is the 0-based index
truncateOutput(output, maxChars) ==
    IF Len(output) <= maxChars THEN output
    ELSE LET truncated == SubSeq(output, 1, maxChars)
             newlines == {i \in 1..Len(truncated) : truncated[i] = "\n"}
             lastNewline == IF newlines = {} THEN -1 ELSE SetMax(newlines) - 1
             breakPoint == IF 10 * lastNewline > 8 * maxChars THEN lastNewline ELSE maxChars
         IN  SubSeq(truncated, 1, breakPoint) \o Notice(breakPoint)

\* result.replace(/^\n+/, "").replace(/\n+$/, "")
trimNewlines(text) ==
    LET keep == {i \in 1..Len(text) : text[i] # "\n"}
    IN  IF keep = {} THEN <<>> ELSE SubSeq(text, SetMin(keep), SetMax(keep))

\* sanitize(output, {command, maxChars}); command is <<>> when it is not
\* given (or empty), maxChars is 0 when it is not given (or 0)
sanitize(output, command, maxChars) ==
    LET stripped == stripAnsi(output)
        unechoed == IF command # <<>> THEN stripCommandEcho(stripped, command) ELSE stripped
        cleaned == cleanWhitespace(unechoed)
        cut == IF maxChars # 0 THEN truncateOutput(cleaned, maxChars) ELSE cleaned
    IN  trimNewlines(cut)

\* the tail of a handler: sanitize, then redactSecrets when it is enabled
handlerOutput(cfg, output, command, maxChars) ==
    LET cleanOutput == sanitize(output, command, maxChars)
    IN  IF cfg.redactSecrets THEN redactSecrets(cleanOutput) ELSE cleanOutput

\* what the terminals print in this specification
T_key == <<"k","e","y",":"," ","A","K","I","A","I","O","S","F","O","D","N","N","7","E","X","A","M","P","L","E">>
T_url == <<"h","t","t","p","s",":","/","/","u","s","e","r",":","A","K","I","A","I","O","S","F","O","D","N","N","7","E","X","A","M","P","L","E","@","h","o","s","t">>
T_nested == <<":","/","/",":","/","/","u",":","p","a","s","s","w","o","r","d","1","@","@">>
T_echo == <<"l","s"," ","/","t","m","p","\n","J","u","s","t"," ","s","o","m","e"," ","n","o","r","m","a","l"," ","o","u","t","p","u","t","\n","$"," ">>
T_ansi == <<"ESC","[","3","1","m","r","e","d","ESC","[","0","m"," "," ","\n","\n","\n","\n","e","n","d","\n">>
T_two == <<"A","K","I","A","I","O","S","F","O","D","N","N","7","E","X","A","M","P","L","E"," ","A","K","I","A","I","O","S","F","O","D","N","N","7","E","X","A","M","P","L","F">>
T_bulk == [k \in 1..120 |-> IF k % 10 = 0 THEN "\n" ELSE "x"]
OutputTexts == {T_key, T_url, T_nested, T_echo, T_ansi, T_two, T_bulk}
\* MCP_TERMINAL_MAX_OUTPUT, and max_output_chars (<<>> when it is not given)
MaxOutputs == {0, 8, DEFAULT_MAX_OUTPUT}
MaxOutputChars == {<<>>, <<MIN_MAX_OUTPUT_CHARS>>}

\* send_command, from the end of its wait on
SendCommandOutput(output, input, max_output_chars) ==
    LET maxChars == IF max_output_chars # <<>> THEN max_output_chars[1] ELSE config.maxOutput
    IN  /\ last' = DoneOutput("send_command_output", input, output, maxChars,
                              handlerOutput(config, output, input, maxChars))
        /\ UNCHANGED <<config, sessions, terminals, creating, waits, idleTimers>>

\* confirm_dangerous_command, from the end of its wait on
ConfirmOutput(output, input) ==
    /\ last' = DoneOutput("confirm_dangerous_command_output", input, output, config.maxOutput,
                          handlerOutput(config, output, input, config.maxOutput))
    /\ UNCHANGED <<config, sessions, terminals, creating, waits, idleTimers>>

\* read_output, from readScreen on
ReadOutput(output) ==
    /\ last' = DoneOutput("read_output_output", <<>>, output, config.maxOutput,
                          handlerOutput(config, output, <<>>, config.maxOutput))
    /\ UNCHANGED <<config, sessions, terminals, creating, waits, idleTimers>>

\* send_control, from readScreen on
SendControlOutput(output) ==
    /\ last' = DoneOutput("send_control_output", <<>>, output, config.maxOutput,
                          handlerOutput(config, output, <<>>, config.maxOutput))
    /\ UNCHANGED <<config, sessions, terminals, creating, waits, idleTimers>>

\* redactSecrets(text) on a text of the terminal, or on its own result
RedactSecretsCall(text) ==
    /\ last' = DoneOutput("redactSecrets", <<>>, text, 0, redactSecrets(text))
    /\ UNCHANGED <<config, sessions, terminals, creating, waits, idleTimers>>

InitOutput ==
    /\ config \in {[NoPolicy EXCEPT !.redactSecrets = r, !.maxOutput = m] :
                      r \in BOOLEAN, m \in MaxOutputs}
    /\ sessions = <<>>
    /\ terminals = <<>>
    /\ creating = {}
    /\ waits = <<>>
    /\ idleTimers = <<>>
    /\ last = NoOp

NextOutput ==
    \/ \E t \in OutputTexts, m \in MaxOutputChars : SendCommandOutput(t, I_ls_tmp, m)
    \/ \E t \in OutputTexts : ConfirmOutput(t, I_rm_tmp)
    \/ \E t \in OutputTexts : ReadOutput(t)
    \/ \E t \in OutputTexts : SendControlOutput(t)
    \/ \E t \in OutputTexts : RedactSecretsCall(t)
    \/ last.op = "redactSecrets" /\ RedactSecretsCall(last.output)

SpecOutput == InitOutput /\ [][NextOutput]_vars

(***************************************************************************)
(* SpecPrompt: one send_command at a time on a terminal whose prompt was   *)
(* detected, with a child that prints output, its prompt and empty lines.  *)
(***************************************************************************)
PromptTimeouts == {400, 1000}
PromptChunks == {"out", "$ ", "$ blank"}

InitPrompt ==
    /\ config = NoPolicy
    /\ \E m \in {"pty", "pipe"} : terminals = <<PromptedTerminal(m)>>
    /\ sessions = <<NewSession(1)>>
    /\ creating = {}
    /\ waits = <<>>
    /\ idleTimers = <<>>
    /\ last = NoOp

NextPrompt ==
    \/ \E ms \in PromptTimeouts : waits = <<>> /\ SendCommandT(1, I_ls_tmp, ms)
    \/ Poll(1)
    \/ Tick
    \/ \E c \in PromptChunks : ChildOutput(1, c)
    \/ ProcessExit(1)

SpecPrompt == InitPrompt /\ [][NextPrompt]_vars

(***************************************************************************)
(* SpecPattern: one terminal from its creation on, with a child that prints *)
(* during and after the startup grace period, used through the wrapper's   *)
(* operations and through send_command.                                    *)
(***************************************************************************)
PatternChunks == {"out", "$ "}

\* terminal.resize(cols, rows): the pty and the emulator are resized, a
\* no-op in pipe mode; the lines the model keeps are not reflowed
TermResizeCall(pid) ==
    /\ pid \in DOMAIN terminals
    /\ last' = Done("resize", pid, <<>>, "ok")
    /\ UNCHANGED <<config, sessions, terminals, creating, waits, idleTimers>>

NextPattern ==
    \/ \E o \in {"pty", "pipe"} : terminals = <<>> /\ CreateBegin(C_bash, S_tmp, o)
    \/ \E p \in Pids : CreateFinish(p, 1)
    \/ \E p \in Pids, c \in PatternChunks : ChildOutput(p, c)
    \/ \E p \in Pids : p \notin creating /\ TermWriteCall(p, Append(I_ls_tmp, "\n"))
    \/ \E p \in Pids : p \notin creating /\ ReadScreenCall(p, FALSE)
    \/ \E p \in Pids : p \notin creating /\ TermResizeCall(p)
    \/ \E p \in Pids : p \notin creating /\ TermKillCall(p)
    \/ \E p \in Pids : p \notin creating /\ TermDisposeCall(p)
    \/ waits = <<>> /\ SendCommandT(1, I_ls_tmp, 120)
    \/ Poll(1)
    \/ waits # <<>> /\ Tick

SpecPattern == Init /\ [][NextPattern]_vars

(***************************************************************************)
(* SpecTimers: sessions are created, touched by send_control, closed by    *)
(* close_session, by their idle timers and by closeAll, while time passes  *)
(* and processes exit.                                                     *)
(***************************************************************************)
InitTimers ==
    /\ config = [NoPolicy EXCEPT !.idleTimeout = 1]
    /\ sessions = <<>>
    /\ terminals = <<>>
    /\ creating = {}
    /\ waits = <<>>
    /\ idleTimers = <<>>
    /\ last = NoOp

NextTimers ==
    \/ creating = {} /\ CreateBegin(C_bash, S_tmp, "pty")
    \/ \E p \in Pids, i \in Ids : CreateFinish(p, i)
    \/ \E i \in Ids : SendControl(i, "enter")
    \/ \E i \in Ids : CloseSession(i)
    \/ \E i \in Ids : IdleFire(i)
    \/ CloseAll({})
    \/ idleTimers # <<>> /\ Tick

SpecTimers == InitTimers /\ [][NextTimers]_vars

(***************************************************************************)
(* SpecClose: one registered session is killed, disposed, closed by        *)
(* close_session, by its idle timer and by closeAll, in any order.         *)
(***************************************************************************)
InitClose ==
    /\ config \in { [NoPolicy EXCEPT !.idleTimeout = T] : T \in {0, 1, 4} }
    /\ \E m \in {"pty", "pipe"} : terminals = <<NewTerminal(m)>>
    /\ sessions = <<NewSession(1)>>
    /\ creating = {}
    /\ waits = <<>>
    /\ idleTimers = armIdleTimer(config, <<>>, 1)
    /\ last = NoOp

NextClose ==
    \/ TermKillCall(1)
    \/ TermDisposeCall(1)
    \/ \E s \in CloseSignals : CloseSessionSignal(1, s)
    \/ IdleFire(1)
    \/ \E F \in SUBSET {1} : CloseAll(F)
    \/ ProcessExit(1)
    \/ Tick

SpecClose == InitClose /\ [][NextClose]_vars

(***************************************************************************)
(* SpecWaitClose: the session of a pending send_command is closed by       *)
(* close_session, by its idle timer or by closeAll.                        *)
(***************************************************************************)
InitWaitClose ==
    /\ config \in { [NoPolicy EXCEPT !.idleTimeout = T] : T \in {0, 2} }
    /\ \E m \in {"pty", "pipe"} : terminals = <<PromptedTerminal(m)>>
    /\ sessions = <<NewSession(1)>>
    /\ creating = {}
    /\ waits = <<>>
    /\ idleTimers = armIdleTimer(config, <<>>, 1)
    /\ last = NoOp

NextWaitClose ==
    \/ \E ms \in WaitTimeouts : waits = <<>> /\ SendCommandT(1, I_ls_tmp, ms)
    \/ Poll(1)
    \/ Tick
    \/ \E c \in WaitChunks : ChildOutput(1, c)
    \/ \E s \in CloseSignals : CloseSessionSignal(1, s)
    \/ IdleFire(1)
    \/ CloseAll({})

SpecWaitClose == InitWaitClose /\ [][NextWaitClose]_vars

(***************************************************************************)
(* SpecExit: sessions are created, their processes exit, and they are      *)
(* listed, read and closed.                                                *)
(***************************************************************************)
\* listSessions(): is_alive of the sessions listed, read from their terminals
listedAlive(sess, terms) == {id \in DOMAIN sess : terms[sess[id].pid].isAlive}

\* handleListSessions
HandleListSessions ==
    /\ last' = [Done("list_sessions", 0, <<>>, "ok")
                   EXCEPT !.resp = [listed |-> listSessions(sessions),
                                    is_alive |-> listedAlive(sessions, terminals)]]
    /\ UNCHANGED <<config, sessions, terminals, creating, waits, idleTimers>>

\* handleReadOutput, up to the screen it read
HandleReadOutput(id, fullScreen) ==
    IF id \notin DOMAIN sessions
    THEN /\ last' = Done("read_output", id, <<>>, "not_found")
         /\ UNCHANGED <<config, sessions, terminals, creating, waits, idleTimers>>
    ELSE LET t == terminals[sessions[id].pid]
         IN  /\ sessions' = getSession(sessions, terminals, id)
             /\ last' = [Done("read_output", id, <<>>, "ok")
                            EXCEPT !.resp.is_alive = t.isAlive,
                                   !.output = readScreen(t, fullScreen)]
             /\ UNCHANGED <<config, terminals, creating, waits, idleTimers>>

InitExit ==
    /\ config = [NoPolicy EXCEPT !.idleTimeout = 1]
    /\ sessions = <<>>
    /\ terminals = <<>>
    /\ creating = {}
    /\ waits = <<>>
    /\ idleTimers = <<>>
    /\ last = NoOp

NextExit ==
    \/ creating = {} /\ CreateBegin(C_bash, S_tmp, "pipe")
    \/ \E p \in Pids, i \in Ids : CreateFinish(p, i)
    \/ \E p \in Pids : ProcessExit(p)
    \/ HandleListSessions
    \/ \E i \in Ids : HandleReadOutput(i, FALSE)
    \/ \E i \in Ids : CloseSession(i)
    \/ \E i \in Ids : IdleFire(i)
    \/ CloseAll({})
    \/ idleTimers # <<>> /\ Tick

SpecExit == InitExit /\ [][NextExit]_vars

(***************************************************************************)
(* SpecReject: send_command on a session with an idle timer, under danger  *)
(* detection and a path policy, while time passes and the child prints.    *)
(***************************************************************************)
InitReject ==
    /\ config = [NoPolicy EXCEPT !.allowedPaths = <<S_tmp>>, !.idleTimeout = 4]
    /\ \E m \in {"pty", "pipe"} : terminals = <<NewTerminal(m)>>
    /\ sessions = <<NewSession(1)>>
    /\ creating = {}
    /\ waits = <<>>
    /\ idleTimers = armIdleTimer(config, <<>>, 1)
    /\ last = NoOp

NextReject ==
    \/ \E i \in Ids, x \in Inputs : waits = <<>> /\ SendCommandT(i, x, 120)
    \/ Poll(1)
    \/ Tick
    \/ ChildOutput(1, "out")
    \/ ProcessExit(1)
    \/ IdleFire(1)

SpecReject == InitReject /\ [][NextReject]_vars

(***************************************************************************)
(* SpecRead: one registered session with its idle timer is read and listed *)
(* while time passes, its child prints and its process exits.              *)
(***************************************************************************)
InitRead ==
    /\ config \in { [NoPolicy EXCEPT !.idleTimeout = T] : T \in {0, 4} }
    /\ \E m \in {"pty", "pipe"} : terminals = <<NewTerminal(m)>>
    /\ sessions = <<NewSession(1)>>
    /\ creating = {}
    /\ waits = <<>>
    /\ idleTimers = armIdleTimer(config, <<>>, 1)
    /\ last = NoOp

NextRead ==
    \/ \E i \in Ids, f \in BOOLEAN : HandleReadOutput(i, f)
    \/ HandleListSessions
    \/ SendControl(1, "enter")
    \/ ChildOutput(1, "out")
    \/ ProcessExit(1)
    \/ IdleFire(1)
    \/ Tick

SpecRead == InitRead /\ [][NextRead]_vars

(***************************************************************************)
(* SpecTree: send_control on one registered session whose process has a    *)
(* tree of descendants, some of which exit during the call.                *)
(***************************************************************************)
TreeKeys == {"enter", "ctrl+c", "ctrl+\\", "ctrl+z"}

InitTree ==
    /\ config = NoPolicy
    /\ \E m \in {"pty", "pipe"} : terminals = <<NewTerminal(m)>>
    /\ sessions = <<NewSession(1)>>
    /\ creating = {}
    /\ waits = <<>>
    /\ idleTimers = <<>>
    /\ last = NoOp

\* one send_control at a time: the next call comes after the child has
\* printed or the process has exited
NextTree ==
    \/ /\ last.op # "send_control"
       /\ terminals[1].mode = "pipe"
       /\ \E k \in DOMAIN signalMap, parent \in ProcessTables,
             exited \in SUBSET (Procs \cup {0}) :
             SendControlWith(1, k, parent, exited)
    \/ \E k \in TreeKeys : last.op # "send_control" /\ SendControl(1, k)
    \/ ProcessExit(1)
    \/ ChildOutput(1, "out")

SpecTree == InitTree /\ [][NextTree]_vars

(***************************************************************************)
(* Properties.                                                             *)
(***************************************************************************)
\* the session exists and its terminal is alive when the handler is entered
LiveRegistered(sid) ==
    sid \in DOMAIN sessions /\ terminals[sessions[sid].pid].isAlive

\* what the child receives, without the appended newline
Chomp(data) == SubSeq(data, 1, Len(data) - 1)

\* C1: with danger detection enabled, a send_command whose input the danger
\* detector classifies as dangerous and whose trimmed form is not in the
\* session's pre-confirmed set writes nothing to any terminal, and on a live
\* registered session it is rejected with the "dangerous command" safety error.
C1_DangerousInputBlocked ==
    [][ ( /\ last'.op = "send_command"
          /\ config.dangerDetection
          /\ DangerOf[last'.input] # Null
          /\ ~ ( /\ last'.sid \in DOMAIN sessions
                 /\ TrimOf[last'.input] \in sessions[last'.sid].pending ) )
        => /\ terminals' = terminals
           /\ LiveRegistered(last'.sid) => last'.result = "dangerous" ]_vars

C1_Witness ==
    /\ last.op = "send_command"
    /\ last.result = "dangerous"
    /\ last.input = I_rm_tmp
    /\ config.dangerDetection
    /\ \A p \in DOMAIN terminals : terminals[p].stdin = <<>>

\* C2: the confirmation of a dangerous input is consumed on use: once
\* confirm_dangerous_command has executed an input on a session, the same
\* call repeated at once, with no new rejection in between, does not execute
\* that input again.
C2_ConfirmationConsumedOnUse ==
    [][ ( /\ config.dangerDetection
          /\ last.op = "confirm_dangerous_command"
          /\ last.result = "written"
          /\ last'.op = "confirm_dangerous_command"
          /\ last'.sid = last.sid
          /\ last'.input = last.input )
        => /\ last'.result # "written"
           /\ terminals' = terminals ]_vars

\* C3 as stated: for every input that matches no danger rule,
\* confirm_dangerous_command on a live registered session rejects with the
\* "not dangerous" error and writes nothing.
C3_NonDangerousRejected ==
    [][ ( /\ last'.op = "confirm_dangerous_command"
          /\ DangerOf[last'.input] = Null )
        => /\ terminals' = terminals
           /\ LiveRegistered(last'.sid) => last'.result = "not_dangerous" ]_vars

\* C3 amended: with danger detection enabled, for every input that matches no
\* danger rule, confirm_dangerous_command writes nothing to any terminal and
\* on a live registered session rejects with the "not dangerous" error.
C3_NonDangerousRejectedWhenDetecting ==
    [][ ( /\ last'.op = "confirm_dangerous_command"
          /\ config.dangerDetection
          /\ DangerOf[last'.input] = Null )
        => /\ terminals' = terminals
           /\ LiveRegistered(last'.sid) => last'.result = "not_dangerous" ]_vars

C3_Witness ==
    /\ last.op = "confirm_dangerous_command"
    /\ last.result = "not_dangerous"
    /\ last.input = I_ls_tmp
    /\ config.dangerDetection

\* C4: when allowed roots are configured, nothing written to a terminal holds
\* an absolute-path reference or a cd target outside every allowed root.
C4_NoDisallowedPathWritten ==
    Len(config.allowedPaths) > 0 =>
        \A p \in DOMAIN terminals :
            \A k \in 1..Len(terminals[p].stdin) :
                DisallowedIn[config.allowedPaths][Chomp(terminals[p].stdin[k])] = Null

\* C5: createSession fails with the capacity error exactly when the table
\* already holds maxSessions entries or more, and then registers and spawns
\* nothing; a closeSession that removes an entry from a table of maxSessions
\* entries leaves it below maxSessions, where createSession passes the check.
C5_CapacityCheck ==
    [][ /\ last'.op = "createSession" =>
            /\ (last'.result = "capacity") <=> (Cardinality(DOMAIN sessions) >= maxSessions)
            /\ last'.result = "capacity" => UNCHANGED <<sessions, terminals, creating>>
        /\ ( /\ last'.op = "closeSession"
             /\ last'.result = "closed"
             /\ Cardinality(DOMAIN sessions) = maxSessions )
           => Cardinality(DOMAIN sessions') < maxSessions ]_vars

\* a createSession that passed the capacity check after a closeSession made room
C5_Witness ==
    /\ last.op = "createSession"
    /\ last.result = "spawned"
    /\ Cardinality(DOMAIN sessions) < maxSessions
    /\ \E p \in DOMAIN terminals : terminals[p].disposed

\* C6: in every reachable state the table holds at most maxSessions sessions.
C6_TableWithinCapacity == Cardinality(DOMAIN sessions) <= maxSessions

\* the basenames of the commands explored, written out
ExpectedBasename ==
    [c \in Commands |-> IF c \in {C_bash, C_bin_bash} THEN C_bash ELSE C_nc]

\* C7: a createSession that passed the capacity check passes the command
\* policy iff the basename is not in the blocklist and the allowlist is empty
\* or contains the basename; a policy failure spawns nothing and leaves the
\* table unchanged.
C7_CommandPolicy ==
    [][ ( /\ last'.op = "createSession"
          /\ last'.result # "capacity" )
        => LET base == ExpectedBasename[last'.input]
               pass == /\ ~Includes(config.blockedCommands, base)
                       /\ \/ Len(config.allowedCommands) = 0
                          \/ Includes(config.allowedCommands, base)
           IN  /\ (last'.result \notin {"not_allowed", "blocked"}) <=> pass
               /\ ~pass => UNCHANGED <<sessions, terminals, creating>> ]_vars

\* /usr/bin/nc, on both lists, is refused
C7_Witness ==
    /\ last.op = "createSession"
    /\ last.input = C_usr_nc
    /\ last.result = "blocked"
    /\ Includes(config.allowedCommands, C_nc)
    /\ terminals = <<>>

\* the working directories explored that are /tmp or below it
CwdsUnderTmp == {S_tmp, S_tmp_x}

NormalForm ==
    [p \in PathArgs |->
        IF p = S_tmp_slash THEN S_tmp
        ELSE IF p = S_tmp_x_dot THEN S_tmp_x
        ELSE IF p = S_tmp_dotdot_etc THEN S_etc
        ELSE p]

\* q equals r or lies below it, on normal forms
AtOrBelow(r, q) == q = r \/ r = S_root \/ IsPrefix(Append(r, "/"), q)

\* C9: isPathAllowed(p) is true for every p when the allowed-roots list is
\* empty; otherwise it is true exactly when the normalized p equals an allowed
\* root or lies below one; it changes no state.
C9_IsPathAllowed ==
    [][ last'.op = "isPathAllowed" =>
          /\ (last'.result = "true") <=>
                \/ Len(config.allowedPaths) = 0
                \/ \E k \in 1..Len(config.allowedPaths) :
                      AtOrBelow(NormalForm[config.allowedPaths[k]], NormalForm[last'.input])
          /\ UNCHANGED <<config, sessions, terminals, creating, waits, idleTimers>> ]_vars

\* /tmpfoo shares the string prefix of the root /tmp and is refused
C9_Witness ==
    /\ last.op = "isPathAllowed"
    /\ config.allowedPaths = <<S_tmp>>
    /\ last.input = S_tmpfoo
    /\ last.result = "false"

\* C10: in both modes liveness, once false, stays false, and a write to a
\* terminal that is not alive fails with the not-alive error, transmits
\* nothing to the child and leaves the since-last-write buffer unchanged.
C10_DeadStaysDead ==
    [][ \A p \in DOMAIN terminals :
          ~terminals[p].isAlive =>
             /\ p \in DOMAIN terminals'
             /\ ~terminals'[p].isAlive
             /\ (last'.op = "write" /\ last'.sid = p) =>
                   /\ last'.result = "not_alive"
                   /\ terminals'[p].stdin = terminals[p].stdin
                   /\ terminals'[p].buf = terminals[p].buf ]_vars

\* a refused write to the dead pipe terminal while its buffer holds output
C10_Witness ==
    /\ last.op = "write"
    /\ last.sid = 2
    /\ last.result = "not_alive"
    /\ terminals[2].mode = "pipe"
    /\ terminals[2].buf # <<>>

\* the operations a step of check() completes: a scheduled re-check, or the
\* return of the handler that awaited the wait
ReturnOps == {"send_command_return", "confirm_dangerous_command_return"}
PollOps == ReturnOps \cup {"poll"}

C12_ExitBeforeTimeout ==
    [][ (last'.op \in PollOps /\ ~terminals[last'.resp.pid].isAlive)
          => (last'.op \in ReturnOps /\ last'.resp.is_complete) ]_vars

C12_Witness ==
    /\ last.op \in ReturnOps
    /\ last.resp.is_complete
    /\ last.resp.elapsed >= last.resp.timeoutMs
    /\ ~terminals[last.resp.pid].isAlive

\* C13: a send_command whose wait is ended by the timeout (the terminal is
\* alive and timeoutMs has elapsed at the check) returns a response, with
\* is_complete = false and a warning; every send_command response carries
\* the warning if and only if is_complete is false.
C13_TimeoutIsWarning ==
    [][ /\ (/\ last'.op \in PollOps
            /\ last'.sid \in DOMAIN sessions
            /\ terminals[last'.resp.pid].isAlive
            /\ last'.resp.elapsed >= last'.resp.timeoutMs)
          => (/\ last'.op = "send_command_return"
              /\ ~last'.resp.is_complete
              /\ last'.resp.warning)
        /\ last'.op = "send_command_return"
          => (last'.resp.warning <=> ~last'.resp.is_complete) ]_vars

C13_Witness ==
    /\ last.op = "send_command_return"
    /\ ~last.resp.is_complete
    /\ last.resp.warning
    /\ last.resp.is_alive

\* the lines of a sequence of lines, as a set
LineSet(lines) == {lines[i] : i \in 1..Len(lines)}

\* C14: in pty and in pipe mode, an accepted write leaves the
\* since-last-write buffer empty, and a readScreen without full history
\* returns nothing but output produced since the last write: every line of
\* it that is not blank is a line of that output.
C14_ReadShowsOnlyOutputSinceWrite ==
    [][ /\ (last'.op = "write" /\ last'.result = "written")
            => terminals'[last'.sid].buf = <<>>
        /\ (last'.op = "readScreen" /\ last'.result = "new")
            => LET sinceWrite == LineSet(BufLines(terminals[last'.sid].buf, 1, <<>>))
                   shown == {line \in LineSet(last'.output) : ~IsBlank(line)}
               IN  shown \cup sinceWrite = sinceWrite
      ]_vars

\* the markers of the commands among lines, in their order
MarkerLine(line) == line \in {<<"A">>, <<"B">>}
MarkerLines(lines) == SelectSeq(lines, MarkerLine)

\* every line the child has printed
AllLines(t) == BufLines(t.emitted, 1, <<>>)

C16_IdleSessionClosed ==
    [][ /\ config.idleTimeout > 0
            => \A id \in DOMAIN sessions' :
                  /\ id \in DOMAIN idleTimers'
                  /\ sessions'[id].idleFor \div POLL_MS <= config.idleTimeout
                  /\ sessions'[id].idleFor \div POLL_MS = config.idleTimeout
                        => TimerOf(idleTimers', id) = 0
        /\ (last'.op = "idle_timeout" /\ last'.sid \in DOMAIN sessions)
            => /\ last'.result = "closed"
               /\ last'.sid \notin DOMAIN sessions'
               /\ ~terminals'[sessions[last'.sid].pid].isAlive
               /\ ~terminals'[sessions[last'.sid].pid].running
               /\ terminals'[sessions[last'.sid].pid].disposed
      ]_vars

C16_Witness ==
    /\ last.op = "idle_timeout"
    /\ last.result = "closed"
    /\ config.idleTimeout = 4
    /\ sessions = <<>>
    /\ terminals[1].disposed

\* C17: with idle timeout T > 0 the idle timer closes a session only when
\* the session has not been touched for more than T/2.
C17_TouchedSessionStaysOpen ==
    [][ (last'.op = "idle_timeout" /\ last'.result = "closed")
          => 2 * (sessions[last'.sid].idleFor \div POLL_MS) > config.idleTimeout ]_vars

\* C18: a closeSession(id) that succeeds leaves id out of the table and of
\* the list, its terminal not alive and disposed, and no idle timer for id;
\* a closeSession(id) on an id that is not in the table fails with
\* not-found and changes nothing.
C18_CloseSessionPostcondition ==
    [][ /\ (last'.op = "closeSession" /\ last'.sid \in DOMAIN sessions)
            => /\ last'.result = "closed"
               /\ last'.sid \notin DOMAIN sessions'
               /\ last'.sid \notin listSessions(sessions')
               /\ ~terminals'[sessions[last'.sid].pid].isAlive
               /\ terminals'[sessions[last'.sid].pid].disposed
               /\ last'.sid \notin DOMAIN idleTimers'
        /\ (last'.op = "closeSession" /\ last'.sid \notin DOMAIN sessions)
            => /\ last'.result = "not_found"
               /\ UNCHANGED <<config, sessions, terminals, creating, waits, idleTimers>>
      ]_vars

C18_Witness ==
    /\ last.op = "closeSession"
    /\ last.result = "not_found"
    /\ config.idleTimeout > 0
    /\ terminals[1].disposed

\* C19: whatever signal closeSession is given, the process of the session
\* it removes from the table is terminated.
C19_ClosedSessionProcessTerminated ==
    [][ (last'.op = "closeSession" /\ last'.result = "closed")
          => ~terminals'[sessions[last'.sid].pid].running ]_vars

\* C20: closeAll returns normally, and every session registered when it is
\* called whose close does not fail is closed (removed from the table, its
\* terminal not alive and disposed, its idle timer cleared), whichever other
\* sessions fail to close.
C20_CloseAllClosesTheRest ==
    [][ last'.op = "closeAll"
          => /\ last'.result = "ok"
             /\ \A id \in DOMAIN sessions \ last'.failing :
                   /\ id \notin DOMAIN sessions'
                   /\ id \notin DOMAIN idleTimers'
                   /\ ~terminals'[sessions[id].pid].isAlive
                   /\ terminals'[sessions[id].pid].disposed ]_vars

C20_Witness ==
    /\ last.op = "closeAll"
    /\ \E id \in DOMAIN sessions : id \in last.failing /\ id = 1
    /\ \E p \in DOMAIN terminals : terminals[p].disposed

\* C21: getSession(id) fails with not-found and changes nothing when id is
\* not registered; when it is, the liveness flag of the session it returns,
\* and the flag the table holds afterwards, equal the terminal's liveness at
\* the call, whatever the flag was before.
C21_GetSessionSyncsLiveness ==
    [][ last'.op = "getSession"
          => IF last'.sid \in DOMAIN sessions
             THEN /\ last'.result \in {"found", "resynced"}
                  /\ last'.resp.is_alive = terminals[sessions[last'.sid].pid].isAlive
                  /\ sessions'[last'.sid].isAlive = terminals[sessions[last'.sid].pid].isAlive
             ELSE /\ last'.result = "not_found"
                  /\ UNCHANGED <<config, sessions, terminals, creating, waits, idleTimers>>
      ]_vars

C21_Witness ==
    /\ last.op = "getSession"
    /\ last.result = "resynced"
    /\ ~last.resp.is_alive

\* the terminals of the sessions in the table
RegisteredPids == {sessions[id].pid : id \in DOMAIN sessions}

\* C22: every terminal whose createSession has returned is the terminal of
\* a session in the table if and only if it has not been disposed.
C22_RegisteredIffNotDisposed ==
    \A p \in DOMAIN terminals \ creating :
        p \in RegisteredPids <=> ~terminals[p].disposed

\* C23: the id under which createSession registers the new session is the
\* id of no session in the table at that moment.
C23_NewIdIsFresh ==
    [][ last'.op = "createSession_return" => last'.sid \notin DOMAIN sessions ]_vars

\* C24: a send_command or confirm_dangerous_command that writes appends its
\* input, followed by a newline, to what the child has received, so the
\* child receives the inputs in the order of the calls; a send_command on a
\* live session whose input no policy blocks is written also while the
\* waits of earlier calls are pending.
C24_WritesInSubmissionOrder ==
    [][ /\ (/\ last'.op \in {"send_command", "confirm_dangerous_command"}
            /\ last'.result = "written")
            => terminals'[sessions[last'.sid].pid].stdin
                 = Append(terminals[sessions[last'.sid].pid].stdin, Append(last'.input, "\n"))
        /\ (/\ last'.op = "send_command"
            /\ LiveRegistered(last'.sid)
            /\ waits # <<>>
            /\ DangerOf[last'.input] = Null
            /\ DisallowedIn[config.allowedPaths][last'.input] = Null)
            => last'.result = "written"
      ]_vars

C24_Witness ==
    /\ last.op = "send_command"
    /\ last.result = "written"
    /\ Len(waits) = 2
    /\ waits[1].input = I_cat_etc
    /\ waits[2].input = I_ls_tmp
    /\ terminals[1].stdin = <<Append(I_cat_etc, "\n"), Append(I_ls_tmp, "\n")>>

\* the four handlers that return terminal text
OutputOps ==
    {"send_command_output", "confirm_dangerous_command_output", "read_output_output",
     "send_control_output"}
Contains(s, sub) == \E i \in 1..(Len(s) - Len(sub) + 1) : SubSeq(s, i, i + Len(sub) - 1) = sub
AwsKeyPattern == SECRET_PATTERNS[1].pattern

\* C25: with secret redaction enabled, terminal text that contains a string of
\* the shape of an AWS access key and is returned whole by send_command,
\* confirm_dangerous_command, read_output or send_control comes back with the
\* marker [REDACTED:AWS_ACCESS_KEY] and without the key.
C25_AwsKeyReturnedAsMarker ==
    (/\ last.op \in OutputOps
     /\ config.redactSecrets
     /\ Test(AwsKeyPattern, last.text)
     /\ (last.maxChars = 0 \/ Len(last.text) <= last.maxChars))
        => /\ Contains(last.output, Marker(L_AWS_ACCESS_KEY))
           /\ ~Test(AwsKeyPattern, last.output)

\* C26: redaction is idempotent: redacting the result of redactSecrets again
\* leaves it as it is.
C26_RedactIdempotent ==
    last.op = "redactSecrets" => redactSecrets(last.output) = last.output

C28_PipeIffPtyFailed ==
    [][ /\ (last'.op = "createSession" /\ last'.result = "spawned")
            => \A p \in DOMAIN terminals' \ DOMAIN terminals :
                   terminals'[p].mode = IF last'.text = PtyFailed THEN "pipe" ELSE "pty"
        /\ \A p \in DOMAIN terminals \cap DOMAIN terminals' :
               terminals'[p].mode = terminals[p].mode ]_vars
C28_Witness ==
    /\ last.op = "createSession"
    /\ last.result = "spawned"
    /\ last.text = PtyFailed
    /\ \E p \in creating : terminals[p].mode = "pipe"

\* the audit records the events of a completed operation call for
EventsOf(done) ==
    CASE done.op = "createSession_return" -> <<"session_create">>
      [] done.op = "closeSession" /\ done.result = "closed" -> <<"session_close">>
      [] done.op = "idle_timeout" /\ done.result = "closed" -> <<"session_idle_timeout">>
      [] done.op = "send_command" /\ done.result = "written" -> <<"command">>
      [] done.op = "send_command" /\ done.result = "dangerous" -> <<"command_blocked_danger">>
      [] done.op = "send_command" /\ done.result = "path" -> <<"command_blocked_path">>
      [] done.op = "confirm_dangerous_command" /\ done.result = "written" ->
           <<"command_confirmed_danger">>
      [] done.op = "send_control" /\ done.result \in {"written", "signalled"} -> <<"control">>
      [] OTHER -> <<>>

\* C29: each security-relevant event (session create, close, idle-timeout
\* close, command written, command blocked by the danger or the path policy,
\* confirmed dangerous command, control send) appends exactly one audit
\* record of its kind, and an operation in which none took place appends none.
C29_OneAuditRecordPerEvent == last.audit = EventsOf(last)

\* C30: while the process is alive, a wait ends with complete = true only at
\* a check at which at least one chunk has arrived since the wait began and
\* none during the OUTPUT_SETTLE_MS before; a silent child ends a wait only by
\* its exit or by the timeout.
C30_CompleteOnlyAfterSettledOutput ==
    [][ (/\ last'.op = "send_command_return"
         /\ last'.resp.is_complete
         /\ last'.resp.is_alive)
            => \E k \in 1..Len(waits) :
                   /\ waits' = RemoveAt(waits, k)
                   /\ Len(terminals[waits[k].pid].emitted) > waits[k].startChunks
                   /\ terminals[waits[k].pid].quiet >= OUTPUT_SETTLE_MS ]_vars
C30_Witness ==
    /\ last.op = "send_command_return"
    /\ last.resp.is_complete
    /\ last.resp.is_alive
    /\ last.resp.elapsed < last.resp.timeoutMs

\* the wait w on terminal t is at a settled poll: the process is alive, the
\* deadline has not passed, output arrived since the start and none for
\* OUTPUT_SETTLE_MS
SettledPoll(t, w) ==
    /\ w.due = 0
    /\ t.isAlive
    /\ w.elapsed < w.timeoutMs
    /\ t.quiet >= OUTPUT_SETTLE_MS
    /\ outputMarker(t) # w.startMarker
\* the last non-blank line of the current screen matches the prompt pattern
PromptOnLastLine(t) ==
    LET screen == readScreen(t, FALSE)
        line == LastNonBlank(screen, Len(screen), 1)
    IN  t.promptPattern # Null /\ line # <<>> /\ IsSuffix(t.promptPattern, line)

\* C31: at a settled poll of a wait on a terminal that has a prompt pattern
\* and whose last non-blank screen line matches it, the wait returns with
\* complete = true at that poll.
C31_PromptCompletesAtOnce ==
    [][ (/\ waits # <<>>
         /\ SettledPoll(terminals[waits[1].pid], waits[1])
         /\ PromptOnLastLine(terminals[waits[1].pid])
         /\ last'.op \in {"poll", "send_command_return"})
            => (last'.op = "send_command_return" /\ last'.resp.is_complete) ]_vars

\* the step is a run of check() for the oldest wait
PollStep == waits # <<>> /\ waits[1].due = 0 /\ last'.op \in {"poll", "send_command_return"}
\* the run of check() resolved the wait with complete = true
ReturnsComplete == last'.op = "send_command_return" /\ last'.resp.is_complete
\* the run of check() took the grace delay
TakesGrace ==
    last'.op = "poll" /\ Len(waits') = Len(waits) /\ waits'[1].due = OUTPUT_SETTLE_MS

\* C32: within one wait the grace delay of one quiet period is taken at most
\* once: the first settled poll whose screen has no prompt on its last
\* non-blank line takes it, and a later such poll returns complete = true
\* at once.
C32_GraceAtMostOnce ==
    [][ PollStep =>
          LET w == waits[1]
              t == terminals[w.pid]
          IN  /\ TakesGrace => (~w.settled /\ waits'[1].settled)
              /\ (w.settled /\ last'.op = "poll") => waits'[1].settled
              /\ (SettledPoll(t, w) /\ ~PromptOnLastLine(t))
                    => IF w.settled THEN ReturnsComplete ELSE TakesGrace ]_vars
\* a wait that took the grace delay has returned complete = true after two
\* quiet periods, before its deadline, on a screen without a prompt
C32_Witness ==
    /\ last.op = "send_command_return"
    /\ last.resp.is_complete
    /\ last.resp.is_alive
    /\ last.resp.elapsed >= 2 * OUTPUT_SETTLE_MS
    /\ last.resp.elapsed < last.resp.timeoutMs
    /\ ~PromptOnLastLine(terminals[last.resp.pid])

\* two prompt patterns are the same: both null, or the same line
SamePattern(a, b) == IF a = Null THEN b = Null ELSE (b # Null /\ a = b)

\* C33: a terminal's prompt pattern is null until createTerminal assigns it
\* after the startup grace period, from the screen at that moment, and no
\* step changes it once the terminal has been handed to the caller.
C33_PromptPatternAssignedOnce ==
    [][ /\ \A p \in DOMAIN terminals' \ DOMAIN terminals :
               terminals'[p].promptPattern = Null
        /\ \A p \in DOMAIN terminals \cap DOMAIN terminals' :
               IF p \notin creating
               THEN SamePattern(terminals'[p].promptPattern, terminals[p].promptPattern)
               ELSE /\ terminals[p].promptPattern = Null
                    /\ SamePattern(terminals'[p].promptPattern,
                                   IF p \in creating' THEN Null
                                   ELSE detectPromptPattern(readScreen(terminals[p], FALSE))) ]_vars
\* a terminal that was handed over with a prompt pattern has been written to
\* and its screen no longer ends in a prompt
C33_Witness ==
    \E p \in DOMAIN terminals \ creating :
        /\ terminals[p].promptPattern # Null
        /\ terminals[p].stdin # <<>>
        /\ detectPromptPattern(readScreen(terminals[p], FALSE)) = Null
        /\ ~terminals[p].isAlive

\* C34: every session id has at most one live idle timer, whatever creates,
\* touches, closes and timer firings came before: resetIdleTimer cancels the
\* timer it finds before it arms the new one.
C34_AtMostOneLiveTimer ==
    \A id \in DOMAIN idleTimers : Len(idleTimers[id]) <= 1

\* a touch re-armed the timer of a session whose timer had been running
C34_Witness ==
    /\ last.op = "send_control"
    /\ last.result = "written"
    /\ last.sid \in DOMAIN idleTimers
    /\ idleTimers[last.sid] = <<setTimeoutDelay(config.idleTimeout)>>
    /\ \E p \in DOMAIN terminals : terminals[p].quiet > 0

\* the calls that reach closeSession
CloseCalls == {"closeSession", "idle_timeout", "closeAll"}

\* C35: however kill, dispose, close_session, the idle timer and closeAll
\* follow each other on a session, its process is signalled by them at most
\* once, by the first call that finds the terminal alive, and every call on
\* a terminal that is not alive sends nothing; the table entry is removed
\* by one call only, and a close that finds no entry changes nothing.
C35_SignalledAndRemovedAtMostOnce ==
    /\ [](\A p \in DOMAIN terminals : terminals[p].signals <= 1)
    /\ [][ /\ \A p \in DOMAIN terminals :
               /\ terminals'[p].signals # terminals[p].signals
                    => terminals[p].isAlive /\ ~terminals'[p].isAlive
               /\ ~terminals[p].isAlive => terminals'[p].signals = terminals[p].signals
           /\ (last'.op \in CloseCalls /\ last'.sid \notin DOMAIN sessions /\ last'.op # "closeAll")
                => UNCHANGED <<sessions, terminals>>
           /\ DOMAIN sessions \subseteq DOMAIN sessions'
                \/ last'.op \in CloseCalls ]_vars

\* dispose() has been called on the terminal of a session that an earlier
\* call had signalled and removed
C35_Witness ==
    /\ last.op = "dispose"
    /\ sessions = <<>>
    /\ terminals[1].signals = 1
    /\ terminals[1].disposed

\* the session of the oldest pending wait has been closed: it is out of the
\* table and its terminal is disposed
WaitingOnClosed ==
    /\ waits # <<>>
    /\ waits[1].sid \notin DOMAIN sessions
    /\ terminals[waits[1].pid].disposed

\* C36: once the session of a pending wait has been closed (by close_session,
\* by its idle timer or by closeAll), the next run of the wait's check
\* resolves it with complete = true, and that run is due within the delay
\* that was pending at the close; the wait does not last to its timeout.
C36_ClosedSessionEndsWait ==
    /\ [](WaitingOnClosed => waits[1].due <= OUTPUT_SETTLE_MS)
    /\ [][ (WaitingOnClosed /\ PollStep) => (ReturnsComplete /\ waits' = Tail(waits)) ]_vars

\* a wait has returned complete before its timeout and before the child
\* printed anything, because its session had been closed
C36_Witness ==
    /\ last.op = "send_command_return"
    /\ last.resp.is_complete
    /\ ~last.resp.is_alive
    /\ last.resp.elapsed < last.resp.timeoutMs
    /\ sessions = <<>>
    /\ terminals[1].disposed
    /\ terminals[1].emitted = PromptedTerminal("pty").emitted

\* the process of the registered session id has exited
Exited(id) == id \in DOMAIN sessions /\ ~terminals[sessions[id].pid].running

\* C37: the exit of its process removes no session from the table: entries
\* leave the table only in close_session, an idle-timer close or closeAll;
\* while it is registered, a session whose process has exited is listed by
\* list_sessions and read by read_output with is_alive = false, and it is
\* counted by the capacity check of createSession.
C37_ExitedSessionStaysRegistered ==
    [][ /\ DOMAIN sessions \subseteq DOMAIN sessions' \/ last'.op \in CloseCalls
        /\ last'.op = "list_sessions"
              => \A id \in Ids : Exited(id) =>
                     id \in last'.resp.listed /\ id \notin last'.resp.is_alive
        /\ (last'.op = "read_output" /\ Exited(last'.sid))
              => last'.result = "ok" /\ ~last'.resp.is_alive
        /\ (last'.op = "createSession"
              /\ Cardinality({id \in Ids : id \in DOMAIN sessions}) >= maxSessions)
              => last'.result = "capacity" /\ terminals' = terminals ]_vars

\* a createSession was refused for capacity while every registered session
\* had an exited process
C37_Witness ==
    /\ last.op = "createSession"
    /\ last.result = "capacity"
    /\ sessions # <<>>
    /\ \A id \in DOMAIN sessions : Exited(id) /\ ~sessions[id].isAlive

\* the step is a send_command that the handler rejected
Rejected ==
    /\ last'.op = "send_command"
    /\ last'.result \in {"not_found", "not_alive", "dangerous", "path"}

\* the step is a send_command on an unknown session, on a session whose
\* terminal is not alive, or with a dangerous input that is not pre-confirmed
MustReject ==
    /\ last'.op = "send_command"
    /\ \/ last'.sid \notin DOMAIN sessions
       \/ ~terminals[sessions[last'.sid].pid].isAlive
       \/ /\ config.dangerDetection
          /\ DangerOf[last'.input] # Null
          /\ TrimOf[last'.input] \notin sessions[last'.sid].pending

\* C38: a send_command on an unknown session, on a session that is not
\* alive, or with a dangerous unconfirmed input is rejected, and a rejected
\* send_command (these, or one rejected for a path outside the allowed
\* roots) writes nothing to any terminal, leaves the since-last-write buffer,
\* every session's last-activity and every idle timer as they were, and
\* starts no wait.
C38_RejectedCommandTouchesNothing ==
    [][ /\ MustReject => Rejected
        /\ Rejected =>
              /\ terminals' = terminals
              /\ idleTimers' = idleTimers
              /\ waits' = waits
              /\ DOMAIN sessions' = DOMAIN sessions
              /\ \A id \in DOMAIN sessions :
                     sessions'[id].idleFor = sessions[id].idleFor ]_vars

\* a command was rejected for its path on a session that had been idle for
\* a while, with output in its buffer and its timer part-way
C38_Witness ==
    /\ last.op = "send_command"
    /\ last.result = "path"
    /\ sessions[1].idleFor > 0
    /\ terminals[1].buf # <<>>
    /\ TimerOf(idleTimers, 1) < setTimeoutDelay(config.idleTimeout)

\* C39: read_output and list_sessions leave every terminal, the set of
\* registered sessions, every session's last-activity and every idle timer
\* as they were (read_output only re-synchronizes the liveness flag of the
\* session it reads); so with idle timeout T > 0 the timer of a session
\* that is read but not written is due once T has passed since its last
\* touch, and its firing closes the session.
C39_ReadsLeaveIdleClockRunning ==
    [][ /\ last'.op \in {"read_output", "list_sessions"}
            => /\ terminals' = terminals
               /\ idleTimers' = idleTimers
               /\ waits' = waits
               /\ DOMAIN sessions' = DOMAIN sessions
               /\ \A id \in DOMAIN sessions :
                     /\ sessions'[id].idleFor = sessions[id].idleFor
                     /\ sessions'[id].pid = sessions[id].pid
                     /\ sessions'[id].isAlive # sessions[id].isAlive
                          => (last'.op = "read_output" /\ last'.sid = id
                              /\ sessions'[id].isAlive = terminals[sessions[id].pid].isAlive)
        /\ config.idleTimeout > 0
            => \A id \in DOMAIN sessions' :
                  /\ id \in DOMAIN idleTimers'
                  /\ sessions'[id].idleFor \div POLL_MS = config.idleTimeout
                        => TimerOf(idleTimers', id) = 0
        /\ (last'.op = "idle_timeout" /\ last'.sid \in DOMAIN sessions)
            => last'.sid \notin DOMAIN sessions' ]_vars

\* a session that had been idle for a while was read, and its timer is
\* still part-way
C39_Witness ==
    /\ last.op = "read_output"
    /\ last.result = "ok"
    /\ last.output # <<>>
    /\ sessions[1].idleFor >= 2 * POLL_MS
    /\ TimerOf(idleTimers, 1) <= setTimeoutDelay(config.idleTimeout) - 2 * POLL_MS

\* a is the parent of d, or the parent of one of its ancestors
RECURSIVE IsAncestor(_, _, _)
IsAncestor(parent, a, d) ==
    /\ d \in Procs
    /\ (parent[d] = a \/ IsAncestor(parent, a, parent[d]))

\* C40: a send_control with ctrl+c, ctrl+\ or ctrl+z on a pipe-mode session
\* delivers the signal mapped to the key to the session's own process and to
\* every process of the table that descends from it, except those that have
\* exited before their turn, once each; whatever is delivered after a
\* process is none of its descendants, and the session's own process comes
\* last.
C40_SignalReachesTreeDeepestFirst ==
    (last.op = "send_control" /\ last.result = "signalled")
    => LET r == last.resp
           key == last.input[1]
           tree == {i \in Procs : IsAncestor(r.parent, 0, i)} \cup {0}
           d == r.delivered
       IN  /\ terminals[sessions[last.sid].pid].mode = "pipe"
           /\ r.signal = (CASE key = "ctrl+c" -> "SIGINT"
                            [] key = "ctrl+\\" -> "SIGQUIT"
                            [] key = "ctrl+z" -> "SIGTSTP")
           /\ {d[k] : k \in 1..Len(d)} = tree \ r.exited
           /\ Len(d) = Cardinality(tree \ r.exited)
           /\ \A j, k \in 1..Len(d) : j < k => ~IsAncestor(r.parent, d[j], d[k])
           /\ 0 \notin r.exited => d[Len(d)] = 0

\* ctrl+z reached a tree two levels deep in which one descendant had exited
C40_Witness ==
    /\ last.op = "send_control"
    /\ last.result = "signalled"
    /\ last.input = <<"ctrl+z">>
    /\ \E i, j \in Procs :
          /\ last.resp.parent[i] = 0
          /\ last.resp.parent[j] = i
          /\ j < i
          /\ i \in last.resp.exited
          /\ last.resp.delivered = <<j, 0>>

====
